---- MODULE Spec2Model ----
(***************************************************************************)
(* Model of the DecTek price feed service (sljivkov/DecTek).               *)
(*                                                                         *)
(* The On-Chain Feed (chains/sepolia.go) validates candidate prices        *)
(* against the last known on-chain price and against bounds derived from   *)
(* a reference oracle, and writes the accepted ones to the contract.       *)
(*                                                                         *)
(* Units.  A price (Go float64) is modelled as a whole number of           *)
(* thousandths of a unit ("mills"), so that the conversion                 *)
(* int64(amount * 100) is a real truncation.  A scaled price (Go int64 or  *)
(* *big.Int) is a whole number of hundredths.  Time is counted in minutes;  *)
(* a bounds-cache entry carries its age, time.Since(entry.timestamp),      *)
(* instead of its timestamp, and ages of TTL and more are not told apart.  *)
(***************************************************************************)
EXTENDS Integers, Sequences, FiniteSets, TLC

VARIABLES
    ctxDone,        \* the context of main has been cancelled
    onChainPrices,  \* SepoliaPriceFeed.onChainPrices: symbol -> price (0 when absent)
    boundCache,     \* SepoliaPriceFeed.boundCache: symbol -> entry or NoEntry
    priceCh,        \* channel of price batches (poller -> writer)
    wpc,            \* position of the WritePricesToChain goroutine
    usdPrices,      \* its local map usdPrices of the batch in progress
    wprices,        \* its local prices: the batch in progress as received
    pending,        \* keys of usdPrices the validation loop has not visited yet
    validPrices,    \* its local slice validPrices
    wi,             \* index into validPrices of the write loop
    inFlight,       \* number of contract Set calls submitted and not yet returned
    oracleFailed,   \* history: symbols whose oracle call failed in the batch in progress
    lastVal,        \* history: the call of validatePrice made by the last step
    lastWrite,      \* history: the return of writeToChain in the last step
    batchLog,       \* history: what has happened to each symbol of the batch in progress
    lastBatch,      \* history: the log of the batch the last step finished
    apiPrices,      \* main.apiPrices, the shared price cache: <<symbol, type>> -> amount
    mu,             \* main.mu, its sync.RWMutex: the writer and the readers holding it
    mpc,            \* position of the main loop
    mdata,          \* the batch the main loop has received
    mi,             \* index into that batch
    lpc,            \* position of ListenOnChainPriceUpdate and of its goroutine
    lev,            \* the observation the listener is sending on out
    out,            \* channel of confirmed prices (listener -> consumer of main)
    outClosed,      \* number of times close(out) has been executed
    unsubs,         \* number of times sub.Unsubscribe() has been executed
    evLog,          \* history: the events received by the listener, in receipt order
    outLog,         \* history: the observations the consumer has received from out
    lAcc,           \* the access to onChainPrices the listener is executing
    wAcc,           \* the access to onChainPrices the chain writer is executing
    fatal,          \* the Go runtime has stopped the process on a concurrent map access
    gpc,            \* position of a pricesHandler call (GET /prices)
    gkeys,          \* symbols of apiPrices it has still to visit
    gsnap,          \* the prices it has collected: <<symbol, type>> -> amount
    spc,            \* position of a setPriceHandler call (POST /set-price)
    supd,           \* the update it has decoded
    sresp,          \* the status of its last response, 0 before the first
    ppc,            \* position of the poller loop UpdatePriceFromApi
    pdata,          \* data of its last fetch
    perr,           \* err of its last fetch: TRUE when the fetch failed
    geckoApiPrices, \* CoinGecko.apiPrices, the client's cache of USD amounts
    fraw,           \* the response the last call of getPrices decoded
    fret,           \* what the last call of getPrices returned
    cin,            \* the last call of getChainlinkPrice: its symbol and what the feed did
    cret,           \* what that call returned
    nin,            \* the last call of NewConfig: the environment and the options
    nret,           \* what that call returned
    bin,            \* the call of getChainlinkBounds in progress: symbol, price, entry found
    bret,           \* what that call returned
    boundCacheMu,   \* SepoliaPriceFeed.boundCacheMu: the writer and the readers holding it
    vpc,            \* position of a call of validatePrice followed step by step
    vloc,           \* its locals: symbol, newPrice, chainlinkPrice, hit, up, down
    rt              \* per symbol, a write followed by its event: price, scaled price, stage

vars == <<ctxDone, onChainPrices, boundCache, priceCh, wpc, usdPrices, wprices, pending,
          validPrices, wi, inFlight, oracleFailed, lastVal, lastWrite, batchLog,
          lastBatch,
          apiPrices, mu, mpc, mdata, mi,
          lpc, lev, out, outClosed, unsubs, evLog, outLog,
          lAcc, wAcc, fatal, gpc, gkeys, gsnap, spc, supd, sresp, ppc, pdata, perr,
          geckoApiPrices, fraw, fret, cin, cret, nin, nret, bin, bret,
          boundCacheMu, vpc, vloc, rt>>

mainVars == <<apiPrices, mu, mpc, mdata, mi>>

listenerVars == <<lpc, lev, out, outClosed, unsubs, evLog, outLog>>

accessVars == <<lAcc, wAcc, fatal>>

handlerVars == <<gpc, gkeys, gsnap, spc, supd, sresp>>

pollerVars == <<ppc, pdata, perr>>

geckoVars == <<geckoApiPrices, fraw, fret>>

\* the variables of the operations the model calls on their own
pricerVars == <<cin, cret>>

configVars == <<nin, nret>>

boundsVars == <<bin, bret>>

lockVars == <<boundCacheMu, vpc, vloc>>

callVars == <<geckoVars, pricerVars, configVars, boundsVars, lockVars, rt>>

\* the variables of the routines other than the chain writer
otherVars == <<mainVars, listenerVars, accessVars, handlerVars, pollerVars, callVars>>

writerVars == <<wpc, usdPrices, wprices, pending, validPrices, wi, inFlight, oracleFailed,
                batchLog>>

\* what the main loop leaves alone, priceCh apart
exceptMain == <<ctxDone, onChainPrices, boundCache, writerVars, listenerVars,
                accessVars, handlerVars, pollerVars, callVars>>

\* what the listener and the consumer of out leave alone, ctxDone and
\* onChainPrices apart
exceptListener == <<boundCache, priceCh, writerVars, mainVars, accessVars,
                    handlerVars, pollerVars, callVars>>

\* what the poller loop leaves alone, priceCh apart
exceptPoller == <<ctxDone, onChainPrices, boundCache, writerVars, mainVars, listenerVars,
                  accessVars, handlerVars, callVars>>

\* what a call of getPrices leaves alone
exceptGecko == <<ctxDone, onChainPrices, boundCache, priceCh, writerVars, mainVars,
                 listenerVars, accessVars, handlerVars, pollerVars, pricerVars,
                 configVars, boundsVars, lockVars, rt>>

\* what a call of getChainlinkPrice leaves alone
exceptPricer == <<ctxDone, onChainPrices, boundCache, priceCh, writerVars, mainVars,
                  listenerVars, accessVars, handlerVars, pollerVars, geckoVars,
                  configVars, boundsVars, lockVars, rt>>

\* what a call of NewConfig leaves alone
exceptConfig == <<ctxDone, onChainPrices, boundCache, priceCh, writerVars, mainVars,
                  listenerVars, accessVars, handlerVars, pollerVars, geckoVars,
                  pricerVars, boundsVars, lockVars, rt>>

\* what a call of getChainlinkBounds leaves alone, boundCache apart
exceptBounds == <<ctxDone, onChainPrices, priceCh, writerVars, mainVars, listenerVars,
                  accessVars, handlerVars, pollerVars, geckoVars, pricerVars,
                  configVars, lockVars, rt>>

\* what validatePrice followed step by step leaves alone, onChainPrices,
\* boundCache and its own variables apart
exceptLock == <<ctxDone, priceCh, writerVars, mainVars, listenerVars, accessVars,
                handlerVars, pollerVars, geckoVars, pricerVars, configVars,
                boundsVars, rt>>

\* what a write followed by its event leaves alone, onChainPrices apart
exceptRoundTrip == <<ctxDone, boundCache, priceCh, writerVars, mainVars, listenerVars,
                     accessVars, handlerVars, pollerVars, geckoVars, pricerVars,
                     configVars, boundsVars, lockVars>>

\* what the HTTP handlers leave alone, apiPrices and mu apart
exceptHandlers == <<ctxDone, onChainPrices, boundCache, priceCh, writerVars, mpc, mdata,
                    mi, listenerVars, accessVars, pollerVars, callVars>>

----------------------------------------------------------------------------
(* Bounds of the model *)

MaxRef == 1         \* the reference oracle answers 0..MaxRef
ChanCap == 1        \* capacity of priceCh in the model
MaxNewPrice == 125  \* candidate scaled prices of validatePrice called directly
MaxEvents == 3      \* PriceChanged events the listener receives
OutCap == 1         \* capacity of out in the model

(* Program constants *)

TTL == 2            \* bounds-cache time to live, minutes

Symbols == {"bitcoin", "ethereum"}

\* the keys the shared price cache of main can get
CacheSymbols == Symbols \cup {"Bitcoin"}
Types == {"USD", "EUR"}
Amounts == {1000, 1155}
RefPrices == 0..MaxRef
OracleOutcomes ==
    {[err |-> FALSE, price |-> r] : r \in RefPrices} \cup {[err |-> TRUE, price |-> 0]}

NoEntry == [up |-> -1, down |-> -1, age |-> -1]
NoVal == [symbol |-> "none"]
NoWrite == [symbol |-> "none"]
NoBatch == [done |-> FALSE, log |-> <<>>]

\* lastVal, lastWrite and lastBatch describe the step just taken; any other
\* step clears them
Forget == lastVal' = NoVal /\ lastWrite' = NoWrite /\ lastBatch' = NoBatch

----------------------------------------------------------------------------
(* Conversions *)

\* int64(amount * 100): a price in mills truncated to hundredths
Scaled(amount) == amount \div 10

\* int64(float64(x) * 1.2), int64(float64(x) * 0.8), ... for x >= 0
MulTrunc(x, percent) == (x * percent) \div 100

\* strings.ToLower on the symbols of the model
ToLower(s) == IF s = "Bitcoin" THEN "bitcoin" ELSE s

\* strings.EqualFold(t, "USD")
IsUSD(t) == t \in {"USD", "usd"}

----------------------------------------------------------------------------
(* The bounds cache and the validation algorithm *)

\* (mutant) the cache test with an entry of exactly the TTL still in use
CacheHitInclusive(cache, symbol) ==
    /\ cache[symbol] # NoEntry
    /\ cache[symbol].age <= TTL

\* getChainlinkBounds, the cache test: an entry exists and is younger than the TTL
CacheHit(cache, symbol) ==
    /\ cache[symbol] # NoEntry
    /\ cache[symbol].age < TTL

\* (mutant) getChainlinkBounds that recomputes the bounds on every call
GetChainlinkBoundsNoCache(cache, symbol, chainlinkPrice) ==
    LET chainlinkScaled == chainlinkPrice * 100
        up == MulTrunc(chainlinkScaled, 120)
        down == MulTrunc(chainlinkScaled, 80)
    IN  [up |-> up, down |-> down,
         cache |-> [cache EXCEPT ![symbol] = [up |-> up, down |-> down, age |-> 0]]]

\* (mutant) getChainlinkBounds that stamps the entry again each time it is used
GetChainlinkBoundsRestamp(cache, symbol, chainlinkPrice) ==
    IF CacheHit(cache, symbol)
    THEN [up |-> cache[symbol].up, down |-> cache[symbol].down,
          cache |-> [cache EXCEPT ![symbol].age = 0]]
    ELSE LET chainlinkScaled == chainlinkPrice * 100
             up == MulTrunc(chainlinkScaled, 120)
             down == MulTrunc(chainlinkScaled, 80)
         IN  [up |-> up, down |-> down,
              cache |-> [cache EXCEPT ![symbol] =
                            [up |-> up, down |-> down, age |-> 0]]]

\* getChainlinkBounds: the bounds in use and the cache afterwards
GetChainlinkBounds(cache, symbol, chainlinkPrice) ==
    IF CacheHit(cache, symbol)
    THEN [up |-> cache[symbol].up, down |-> cache[symbol].down, cache |-> cache]
    ELSE LET chainlinkScaled == chainlinkPrice * 100
             up == MulTrunc(chainlinkScaled, 120)
             down == MulTrunc(chainlinkScaled, 80)
         IN  [up |-> up, down |-> down,
              cache |-> [cache EXCEPT ![symbol] =
                            [up |-> up, down |-> down, age |-> 0]]]

\* (mutant) the 2% test with both ends excluded
WithinContractBoundsStrict(contractPrice, newPrice) ==
    LET contractUp == MulTrunc(contractPrice, 102)
        contractDown == MulTrunc(contractPrice, 98)
    IN  newPrice > contractDown /\ newPrice < contractUp

\* validatePrice, lines 393-398: newPrice lies within 2% of the contract price
WithinContractBounds(contractPrice, newPrice) ==
    LET contractUp == MulTrunc(contractPrice, 102)
        contractDown == MulTrunc(contractPrice, 98)
    IN  newPrice >= contractDown /\ newPrice <= contractUp

\* (mutant) validatePrice that accepts every price outside the contract bounds
ValidatePriceUnchecked(prices, cache, symbol, newPrice, outcome) ==
    IF outcome.err
    THEN [ok |-> FALSE, err |-> TRUE, cache |-> cache, calls |-> 1]
    ELSE LET contractPrice == Scaled(prices[symbol])
             b == GetChainlinkBounds(cache, symbol, outcome.price)
             withinChainlinkBounds == newPrice >= b.down /\ newPrice <= b.up
         IN  [ok |-> IF contractPrice = 0 THEN withinChainlinkBounds
                     ELSE ~WithinContractBounds(contractPrice, newPrice),
              err |-> FALSE, cache |-> b.cache, calls |-> 1]

\* (mutant) validatePrice that goes on with the zero price of a failed oracle call
ValidatePriceIgnoreErr(prices, cache, symbol, newPrice, outcome) ==
    LET contractPrice == Scaled(prices[symbol])
        b == GetChainlinkBounds(cache, symbol, outcome.price)
        withinChainlinkBounds == newPrice >= b.down /\ newPrice <= b.up
    IN  [ok |-> IF contractPrice = 0 THEN withinChainlinkBounds
                ELSE IF WithinContractBounds(contractPrice, newPrice) THEN FALSE
                ELSE withinChainlinkBounds,
         err |-> FALSE, cache |-> b.cache, calls |-> 1]

\* (mutant) validatePrice that tests the price against the lower bound only
ValidatePriceLowerOnly(prices, cache, symbol, newPrice, outcome) ==
    IF outcome.err
    THEN [ok |-> FALSE, err |-> TRUE, cache |-> cache, calls |-> 1]
    ELSE LET contractPrice == Scaled(prices[symbol])
             b == GetChainlinkBounds(cache, symbol, outcome.price)
             withinChainlinkBounds == newPrice >= b.down
         IN  [ok |-> IF contractPrice = 0 THEN withinChainlinkBounds
                     ELSE IF WithinContractBounds(contractPrice, newPrice) THEN FALSE
                     ELSE withinChainlinkBounds,
              err |-> FALSE, cache |-> b.cache, calls |-> 1]

\* validatePrice: `outcome` is what the oracle answers to the call on line 378.
\* calls counts the oracle calls made; cache is the bounds cache afterwards.
ValidatePrice(prices, cache, symbol, newPrice, outcome) ==
    IF outcome.err
    THEN [ok |-> FALSE, err |-> TRUE, cache |-> cache, calls |-> 1]
    ELSE LET contractPrice == Scaled(prices[symbol])
             b == GetChainlinkBounds(cache, symbol, outcome.price)
             withinChainlinkBounds == newPrice >= b.down /\ newPrice <= b.up
         IN  [ok |-> IF contractPrice = 0 THEN withinChainlinkBounds
                     ELSE IF WithinContractBounds(contractPrice, newPrice) THEN FALSE
                     ELSE withinChainlinkBounds,
              err |-> FALSE, cache |-> b.cache, calls |-> 1]

\* history: the log of the batch in progress after the validation of symbol.
\* outside: newPrice is outside 2% of the on-chain price; withinReference: the
\* oracle answered and newPrice is within 20% of its answer; withinInUse: the
\* oracle answered and newPrice is within the bounds getChainlinkBounds returned
LogValidation(symbol, amount, newPrice, outcome) ==
    LET b == GetChainlinkBounds(boundCache, symbol, outcome.price)
        entry == [amount |-> amount,
                  outside |-> ~WithinContractBounds(Scaled(onChainPrices[symbol]), newPrice),
                  withinReference |->
                      /\ ~outcome.err
                      /\ newPrice >= MulTrunc(outcome.price * 100, 80)
                      /\ newPrice <= MulTrunc(outcome.price * 100, 120),
                  withinInUse |->
                      ~outcome.err /\ newPrice >= b.down /\ newPrice <= b.up,
                  sets |-> 0, scaled |-> 0, ok |-> FALSE]
    IN  [k \in DOMAIN batchLog \cup {symbol} |->
            IF k = symbol THEN entry ELSE batchLog[k]]

\* history: the log after the Set call of writeToChain for price, line 410-412
LogSetCall(price) ==
    [batchLog EXCEPT ![price.Symbol] =
        [@ EXCEPT !.sets = @ + 1, !.scaled = Scaled(price.Amount)]]

\* history: the log after the return of that call
LogSetReturn(write) ==
    [batchLog EXCEPT ![write.symbol] = [@ EXCEPT !.ok = write.ok]]

\* history record of one call of validatePrice made in the current state
ValRecord(symbol, newPrice, outcome, res) ==
    [symbol |-> symbol, newPrice |-> newPrice, outcome |-> outcome,
     onChain |-> onChainPrices[symbol], pre |-> boundCache[symbol],
     ok |-> res.ok, err |-> res.err, calls |-> res.calls]

----------------------------------------------------------------------------
(* Batches *)

\* the observations a fetch can return for one symbol
Observations(symbol) ==
    IF symbol = "bitcoin"
    THEN [Symbol : {symbol}, Amount : Amounts, Type : {"USD"}]
    ELSE [Symbol : {symbol}, Amount : {1000}, Type : Types]

\* a batch holds one observation for each symbol of the response
Batches ==
    {<<a>> : a \in Observations("bitcoin")}
        \cup {<<a, b>> : a \in Observations("bitcoin"), b \in Observations("ethereum")}

\* the batches the tests of the chain writer send on its channel: one or two
\* observations, with the currency type spelled in either case; the amount in
\* euros of a coin is never its amount in dollars; a symbol spelled with a
\* capital carries another amount in dollars
TestObservations ==
    [Symbol : Symbols, Amount : {1000}, Type : {"USD", "usd"}]
        \cup [Symbol : Symbols, Amount : Amounts \ {1000}, Type : {"EUR"}]
        \cup [Symbol : {"Bitcoin"}, Amount : Amounts \ {1000}, Type : {"USD"}]

TestBatches ==
    {<<a>> : a \in TestObservations} \cup {<<a, b>> : a, b \in TestObservations}

\* (mutant) usdPrices in which the first USD observation of a symbol stays
RECURSIVE UsdPricesOfFirstKept(_)
UsdPricesOfFirstKept(prices) ==
    IF prices = <<>> THEN <<>>
    ELSE LET front == UsdPricesOfFirstKept(SubSeq(prices, 1, Len(prices) - 1))
             price == prices[Len(prices)]
             key == ToLower(price.Symbol)
         IN  IF IsUSD(price.Type) /\ key \notin DOMAIN front
             THEN [k \in DOMAIN front \cup {key} |->
                      IF k = key THEN price.Amount ELSE front[k]]
             ELSE front

\* (mutant) usdPrices built from the observations of every currency type
RECURSIVE UsdPricesOfAnyType(_)
UsdPricesOfAnyType(prices) ==
    IF prices = <<>> THEN <<>>
    ELSE LET front == UsdPricesOfAnyType(SubSeq(prices, 1, Len(prices) - 1))
             price == prices[Len(prices)]
             key == ToLower(price.Symbol)
         IN  [k \in DOMAIN front \cup {key} |->
                 IF k = key THEN price.Amount ELSE front[k]]

\* WritePricesToChain, lines 430-435: the USD observations of a batch keyed by
\* lower-cased symbol; a later observation of a symbol replaces an earlier one
RECURSIVE UsdPricesOf(_)
UsdPricesOf(prices) ==
    IF prices = <<>> THEN <<>>
    ELSE LET front == UsdPricesOf(SubSeq(prices, 1, Len(prices) - 1))
             price == prices[Len(prices)]
             key == ToLower(price.Symbol)
         IN  IF IsUSD(price.Type)
             THEN [k \in DOMAIN front \cup {key} |->
                      IF k = key THEN price.Amount ELSE front[k]]
             ELSE front

----------------------------------------------------------------------------
(* Initial state: NewSepoliaPriceFeed and the start of main *)

\* no amount stored under a key of apiPrices
Absent == -1

\* the listener is not sending
NoPrice == [Symbol |-> "none"]

\* the routine is not executing an access to onChainPrices
NoAccess == [kind |-> "none"]
NoCall == [err |-> "none"]

\* sync.RWMutex, unlocked
Unlocked == [w |-> "none", r |-> {}]

\* the routines other than the chain writer, at the start of main
OtherInit ==
    /\ apiPrices = [k \in CacheSymbols \X Types |-> Absent]
    /\ mu = Unlocked
    /\ mpc = "recv"
    /\ mdata = <<>>
    /\ mi = 1
    /\ lpc = "start"
    /\ lev = NoPrice
    /\ out = <<>>
    /\ outClosed = 0
    /\ unsubs = 0
    /\ evLog = <<>>
    /\ outLog = <<>>
    /\ lAcc = NoAccess
    /\ wAcc = NoAccess
    /\ fatal = FALSE
    /\ gpc = "idle"
    /\ gkeys = {}
    /\ gsnap = <<>>
    /\ spc = "idle"
    /\ supd = NoPrice
    /\ sresp = 0
    /\ ppc = "fetch"
    /\ pdata = <<>>
    /\ perr = FALSE
    /\ geckoApiPrices = [symbol \in Symbols |-> Absent]
    /\ fraw = {}
    /\ fret = NoCall
    /\ cin = NoCall
    /\ cret = NoCall
    /\ nin = NoCall
    /\ nret = NoCall
    /\ bin = NoCall
    /\ bret = NoCall
    /\ boundCacheMu = Unlocked
    /\ vpc = "idle"
    /\ vloc = NoCall
    /\ rt = [symbol \in Symbols |-> NoCall]

Init ==
    /\ ctxDone = FALSE
    /\ onChainPrices = [s \in Symbols |-> 0]
    /\ boundCache = [s \in Symbols |-> NoEntry]
    /\ priceCh = <<>>
    /\ wpc = "select"
    /\ usdPrices = <<>>
    /\ wprices = <<>>
    /\ pending = {}
    /\ validPrices = <<>>
    /\ wi = 1
    /\ inFlight = 0
    /\ oracleFailed = {}
    /\ lastVal = NoVal
    /\ lastWrite = NoWrite
    /\ batchLog = <<>>
    /\ lastBatch = NoBatch
    /\ OtherInit

----------------------------------------------------------------------------
(* Environment *)

\* one minute passes: every entry of the bounds cache grows older
Tick ==
    /\ boundCache' = [s \in Symbols |->
          IF boundCache[s] = NoEntry \/ boundCache[s].age >= TTL THEN boundCache[s]
          ELSE [boundCache[s] EXCEPT !.age = @ + 1]]
    /\ UNCHANGED otherVars
    /\ UNCHANGED <<ctxDone, onChainPrices, priceCh, writerVars>>
    /\ Forget

\* main's cancel()
Cancel ==
    /\ ~ctxDone
    /\ ctxDone' = TRUE
    /\ UNCHANGED otherVars
    /\ UNCHANGED <<onChainPrices, boundCache, priceCh, writerVars>>
    /\ Forget

\* (mutant) the loop returns when a fetch fails
PollerFetchFailReturns ==
    /\ ppc = "fetch"
    /\ pdata' = <<>>
    /\ perr' = TRUE
    /\ ppc' = "returned"
    /\ UNCHANGED <<exceptPoller, priceCh>>
    /\ Forget

\* UpdatePriceFromApi step by step.  Line 94, getPrices returns an error:
\* data is nil, the error is logged and the loop goes to its sleep
PollerFetchFail ==
    /\ ppc = "fetch"
    /\ pdata' = <<>>
    /\ perr' = TRUE
    /\ ppc' = "sleep"
    /\ UNCHANGED <<exceptPoller, priceCh>>
    /\ Forget

\* line 94, getPrices returns the observations of the response
PollerFetchOk ==
    /\ ppc = "fetch"
    /\ \E batch \in Batches : pdata' = batch
    /\ perr' = FALSE
    /\ ppc' = "send"
    /\ UNCHANGED <<exceptPoller, priceCh>>
    /\ Forget

\* line 100, priceCh <- data: blocks while the channel is full
PollerDeliver ==
    /\ ppc = "send"
    /\ Len(priceCh) < ChanCap
    /\ priceCh' = Append(priceCh, pdata)
    /\ ppc' = "sleep"
    /\ UNCHANGED <<exceptPoller, pdata, perr>>
    /\ Forget

\* (mutant) the poller watches the context and fetches no more once it is done
PollerSleepUntilCancel ==
    /\ ppc = "sleep"
    /\ ~ctxDone
    /\ ppc' = "fetch"
    /\ UNCHANGED <<exceptPoller, priceCh, pdata, perr>>
    /\ Forget

\* line 104, time.Sleep ends and the loop starts its next iteration
PollerSleep ==
    /\ ppc = "sleep"
    /\ ppc' = "fetch"
    /\ UNCHANGED <<exceptPoller, priceCh, pdata, perr>>
    /\ Forget

\* UpdatePriceFromApi in one step, for the specifications that do not look
\* inside the poller: a successful fetch sends its batch on the channel
PollerSend ==
    /\ Len(priceCh) < ChanCap
    /\ \E batch \in Batches : priceCh' = Append(priceCh, batch)
    /\ UNCHANGED otherVars
    /\ UNCHANGED <<ctxDone, onChainPrices, boundCache, writerVars>>
    /\ Forget

\* a test sends a batch on the channel of the chain writer
TestSend ==
    /\ Len(priceCh) < ChanCap
    /\ \E batch \in TestBatches : priceCh' = Append(priceCh, batch)
    /\ UNCHANGED otherVars
    /\ UNCHANGED <<ctxDone, onChainPrices, boundCache, writerVars>>
    /\ Forget

----------------------------------------------------------------------------
(* WritePricesToChain: the chain writer goroutine.  Its locals usdPrices,    *)
(* validPrices and the loop index are dead at the select and are cleared     *)
(* there.                                                                    *)

\* select, case prices := <-in: receive a batch and build usdPrices
WriterRecv ==
    /\ wpc = "select"
    /\ priceCh # <<>>
    /\ LET usd == UsdPricesOf(Head(priceCh))
       IN  /\ usdPrices' = usd
           /\ wprices' = Head(priceCh)
           /\ pending' = DOMAIN usd
           /\ wpc' = IF DOMAIN usd = {} THEN "select" ELSE "validate"
    /\ priceCh' = Tail(priceCh)
    /\ UNCHANGED otherVars
    /\ UNCHANGED <<ctxDone, onChainPrices, boundCache, validPrices, wi, inFlight,
                   oracleFailed, batchLog>>
    /\ Forget

\* (mutant) the select takes the ctx.Done case only when no batch is waiting
WriterStopWhenIdle ==
    /\ wpc = "select"
    /\ ctxDone
    /\ priceCh = <<>>
    /\ wpc' = "stopped"
    /\ UNCHANGED otherVars
    /\ UNCHANGED <<ctxDone, onChainPrices, boundCache, priceCh, usdPrices, wprices, pending,
                   validPrices, wi, inFlight, oracleFailed, batchLog>>
    /\ Forget

\* select, case <-ctx.Done(): return
WriterStop ==
    /\ wpc = "select"
    /\ ctxDone
    /\ wpc' = "stopped"
    /\ UNCHANGED otherVars
    /\ UNCHANGED <<ctxDone, onChainPrices, boundCache, priceCh, usdPrices, wprices, pending,
                   validPrices, wi, inFlight, oracleFailed, batchLog>>
    /\ Forget

\* one iteration of the validation loop, lines 440-459; the map is iterated in
\* any order.  After the last one the write loop starts, or, with nothing to
\* write, the select.
WriterValidate ==
    /\ wpc = "validate"
    /\ \E symbol \in pending, outcome \in OracleOutcomes :
          LET amount == usdPrices[symbol]
              newPrice == Scaled(amount)
              res == ValidatePrice(onChainPrices, boundCache, symbol, newPrice, outcome)
              valid == IF ~res.err /\ res.ok
                       THEN Append(validPrices,
                                   [Symbol |-> symbol, Amount |-> amount, Type |-> "USD"])
                       ELSE validPrices
              last == pending = {symbol}
              log == LogValidation(symbol, amount, newPrice, outcome)
          IN  /\ boundCache' = res.cache
              /\ pending' = pending \ {symbol}
              /\ lastVal' = ValRecord(symbol, newPrice, outcome, res)
              /\ IF last /\ valid = <<>>
                 THEN /\ wpc' = "select"
                      /\ usdPrices' = <<>>
                      /\ wprices' = <<>>
                      /\ validPrices' = <<>>
                      /\ oracleFailed' = {}
                      /\ batchLog' = <<>>
                      /\ lastBatch' = [done |-> TRUE, log |-> log]
                 ELSE /\ wpc' = IF last THEN "write" ELSE "validate"
                      /\ usdPrices' = usdPrices
                      /\ wprices' = wprices
                      /\ validPrices' = valid
                      /\ oracleFailed' =
                            IF outcome.err THEN oracleFailed \cup {symbol} ELSE oracleFailed
                      /\ batchLog' = log
                      /\ lastBatch' = NoBatch
    /\ lastWrite' = NoWrite
    /\ UNCHANGED otherVars
    /\ UNCHANGED <<ctxDone, onChainPrices, priceCh, wi, inFlight>>

\* (mutant) the price is handed to Set as int64(price), not int64(price * 100)
WriterSubmitUnscaled ==
    /\ wpc = "write"
    /\ inFlight' = inFlight + 1
    /\ batchLog' = [batchLog EXCEPT ![validPrices[wi].Symbol] =
                       [@ EXCEPT !.sets = @ + 1, !.scaled = validPrices[wi].Amount \div 1000]]
    /\ wpc' = "await"
    /\ UNCHANGED otherVars
    /\ UNCHANGED <<ctxDone, onChainPrices, boundCache, priceCh, usdPrices, wprices, pending,
                   validPrices, wi, oracleFailed>>
    /\ Forget

\* (mutant) the Set call is started without waiting for its result
WriterSubmitAsync ==
    /\ wpc = "write"
    /\ inFlight' = inFlight + 1
    /\ batchLog' = LogSetCall(validPrices[wi])
    /\ IF wi < Len(validPrices)
       THEN /\ wpc' = "write"
            /\ wi' = wi + 1
            /\ UNCHANGED <<usdPrices, wprices, validPrices, oracleFailed>>
       ELSE /\ wpc' = "await"
            /\ UNCHANGED <<wi, usdPrices, wprices, validPrices, oracleFailed>>
    /\ UNCHANGED otherVars
    /\ UNCHANGED <<ctxDone, onChainPrices, boundCache, priceCh, pending>>
    /\ Forget

\* writeToChain, line 412: the contract Set call is submitted
WriterSubmit ==
    /\ wpc = "write"
    /\ inFlight' = inFlight + 1
    /\ batchLog' = LogSetCall(validPrices[wi])
    /\ wpc' = "await"
    /\ UNCHANGED otherVars
    /\ UNCHANGED <<ctxDone, onChainPrices, boundCache, priceCh, usdPrices, wprices, pending,
                   validPrices, wi, oracleFailed>>
    /\ Forget

\* (mutant) the local price becomes the scaled price written, not the price given
WriterSetReturnTruncated ==
    /\ wpc = "await"
    /\ inFlight' = inFlight - 1
    /\ \E ok \in BOOLEAN :
          LET price == validPrices[wi]
          IN  /\ onChainPrices' = IF ok
                    THEN [onChainPrices EXCEPT ![price.Symbol] = Scaled(price.Amount) * 10]
                    ELSE onChainPrices
              /\ lastWrite' = [symbol |-> price.Symbol, price |-> price.Amount, ok |-> ok]
    /\ IF wi < Len(validPrices)
       THEN /\ wpc' = "write"
            /\ wi' = wi + 1
            /\ batchLog' = LogSetReturn(lastWrite')
            /\ lastBatch' = NoBatch
            /\ UNCHANGED <<usdPrices, wprices, validPrices, oracleFailed>>
       ELSE /\ wpc' = "select"
            /\ wi' = 1
            /\ usdPrices' = <<>>
            /\ wprices' = <<>>
            /\ validPrices' = <<>>
            /\ oracleFailed' = {}
            /\ batchLog' = <<>>
            /\ lastBatch' = [done |-> TRUE, log |-> LogSetReturn(lastWrite')]
    /\ lastVal' = NoVal
    /\ UNCHANGED otherVars
    /\ UNCHANGED <<ctxDone, boundCache, priceCh, pending>>

\* (mutant) a failed write ends the write loop
WriterSetReturnAbort ==
    /\ wpc = "await"
    /\ inFlight' = inFlight - 1
    /\ \E ok \in BOOLEAN :
          LET price == validPrices[wi]
          IN  /\ onChainPrices' = IF ok
                    THEN [onChainPrices EXCEPT ![price.Symbol] = price.Amount]
                    ELSE onChainPrices
              /\ lastWrite' = [symbol |-> price.Symbol, price |-> price.Amount, ok |-> ok]
    /\ IF wi < Len(validPrices) /\ lastWrite'.ok
       THEN /\ wpc' = "write"
            /\ wi' = wi + 1
            /\ batchLog' = LogSetReturn(lastWrite')
            /\ lastBatch' = NoBatch
            /\ UNCHANGED <<usdPrices, wprices, validPrices, oracleFailed>>
       ELSE /\ wpc' = "select"
            /\ wi' = 1
            /\ usdPrices' = <<>>
            /\ wprices' = <<>>
            /\ validPrices' = <<>>
            /\ oracleFailed' = {}
            /\ batchLog' = <<>>
            /\ lastBatch' = [done |-> TRUE, log |-> LogSetReturn(lastWrite')]
    /\ lastVal' = NoVal
    /\ UNCHANGED otherVars
    /\ UNCHANGED <<ctxDone, boundCache, priceCh, pending>>

\* (mutant) the write loop ends after its first write
WriterSetReturnOnce ==
    /\ wpc = "await"
    /\ inFlight' = inFlight - 1
    /\ \E ok \in BOOLEAN :
          LET price == validPrices[wi]
          IN  /\ onChainPrices' = IF ok
                    THEN [onChainPrices EXCEPT ![price.Symbol] = price.Amount]
                    ELSE onChainPrices
              /\ lastWrite' = [symbol |-> price.Symbol, price |-> price.Amount, ok |-> ok]
    /\ IF wi < Len(validPrices) /\ wi < 1
       THEN /\ wpc' = "write"
            /\ wi' = wi + 1
            /\ batchLog' = LogSetReturn(lastWrite')
            /\ lastBatch' = NoBatch
            /\ UNCHANGED <<usdPrices, wprices, validPrices, oracleFailed>>
       ELSE /\ wpc' = "select"
            /\ wi' = 1
            /\ usdPrices' = <<>>
            /\ wprices' = <<>>
            /\ validPrices' = <<>>
            /\ oracleFailed' = {}
            /\ batchLog' = <<>>
            /\ lastBatch' = [done |-> TRUE, log |-> LogSetReturn(lastWrite')]
    /\ lastVal' = NoVal
    /\ UNCHANGED otherVars
    /\ UNCHANGED <<ctxDone, boundCache, priceCh, pending>>

\* (mutant) the local price is stored whether the Set call succeeded or not
WriterSetReturnStoresAnyway ==
    /\ wpc = "await"
    /\ inFlight' = inFlight - 1
    /\ \E ok \in BOOLEAN :
          LET price == validPrices[wi]
          IN  /\ onChainPrices' = [onChainPrices EXCEPT ![price.Symbol] = price.Amount]
              /\ lastWrite' = [symbol |-> price.Symbol, price |-> price.Amount, ok |-> ok]
    /\ IF wi < Len(validPrices)
       THEN /\ wpc' = "write"
            /\ wi' = wi + 1
            /\ batchLog' = LogSetReturn(lastWrite')
            /\ lastBatch' = NoBatch
            /\ UNCHANGED <<usdPrices, wprices, validPrices, oracleFailed>>
       ELSE /\ wpc' = "select"
            /\ wi' = 1
            /\ usdPrices' = <<>>
            /\ wprices' = <<>>
            /\ validPrices' = <<>>
            /\ oracleFailed' = {}
            /\ batchLog' = <<>>
            /\ lastBatch' = [done |-> TRUE, log |-> LogSetReturn(lastWrite')]
    /\ lastVal' = NoVal
    /\ UNCHANGED otherVars
    /\ UNCHANGED <<ctxDone, boundCache, priceCh, pending>>



\* writeToChain, lines 413-420: the Set call returns; then the next iteration
\* of the write loop, or back to the select
WriterSetReturn ==
    /\ wpc = "await"
    /\ inFlight' = inFlight - 1
    /\ \E ok \in BOOLEAN :
          LET price == validPrices[wi]
          IN  /\ onChainPrices' = IF ok
                    THEN [onChainPrices EXCEPT ![price.Symbol] = price.Amount]
                    ELSE onChainPrices
              /\ lastWrite' = [symbol |-> price.Symbol, price |-> price.Amount, ok |-> ok]
    /\ IF wi < Len(validPrices)
       THEN /\ wpc' = "write"
            /\ wi' = wi + 1
            /\ batchLog' = LogSetReturn(lastWrite')
            /\ lastBatch' = NoBatch
            /\ UNCHANGED <<usdPrices, wprices, validPrices, oracleFailed>>
       ELSE /\ wpc' = "select"
            /\ wi' = 1
            /\ usdPrices' = <<>>
            /\ wprices' = <<>>
            /\ validPrices' = <<>>
            /\ oracleFailed' = {}
            /\ batchLog' = <<>>
            /\ lastBatch' = [done |-> TRUE, log |-> LogSetReturn(lastWrite')]
    /\ lastVal' = NoVal
    /\ UNCHANGED otherVars
    /\ UNCHANGED <<ctxDone, boundCache, priceCh, pending>>

----------------------------------------------------------------------------
(* The main loop of main: it ranges over the same channel priceCh as the    *)
(* chain writer and stores each batch in the shared price cache              *)

\* (mutant) the main loop reads the batch at the head of the channel and
\* leaves it there
MainRecvPeek ==
    /\ mpc = "recv"
    /\ priceCh # <<>>
    /\ mdata' = Head(priceCh)
    /\ mpc' = "lock"
    /\ UNCHANGED <<exceptMain, priceCh, apiPrices, mu, mi>>
    /\ Forget

\* for data := range priceCh: the main loop receives a batch
MainRecv ==
    /\ mpc = "recv"
    /\ priceCh # <<>>
    /\ mdata' = Head(priceCh)
    /\ priceCh' = Tail(priceCh)
    /\ mpc' = "lock"
    /\ UNCHANGED <<exceptMain, apiPrices, mu, mi>>
    /\ Forget

\* mu.Lock(): granted when nobody holds the lock
MainLock ==
    /\ mpc = "lock"
    /\ mu = Unlocked
    /\ mu' = [w |-> "main", r |-> {}]
    /\ mpc' = IF mdata = <<>> THEN "unlock" ELSE "apply"
    /\ mi' = 1
    /\ UNCHANGED <<exceptMain, priceCh, apiPrices, mdata>>
    /\ Forget

\* one iteration of the loop over the coins of the batch
MainApply ==
    /\ mpc = "apply"
    /\ LET coin == mdata[mi]
       IN  apiPrices' = [apiPrices EXCEPT ![<<coin.Symbol, coin.Type>>] = coin.Amount]
    /\ IF mi < Len(mdata)
       THEN mi' = mi + 1 /\ mpc' = "apply"
       ELSE mi' = mi /\ mpc' = "unlock"
    /\ UNCHANGED <<exceptMain, priceCh, mu, mdata>>
    /\ Forget

\* mu.Unlock(), and back to the receive
MainUnlock ==
    /\ mpc = "unlock"
    /\ mu' = Unlocked
    /\ mpc' = "recv"
    /\ mdata' = <<>>
    /\ mi' = 1
    /\ UNCHANGED <<exceptMain, priceCh, apiPrices>>
    /\ Forget

----------------------------------------------------------------------------
(* ListenOnChainPriceUpdate and the goroutine of main that drains out *)

\* scaled prices carried by PriceChanged events: 1.00, 1.15 and 2.50
EventPrices == {100, 115, 250}

\* block timestamps carried by the events
Stamps == {1, 2}

\* the PriceChanged events the subscription can deliver
Events == [Symbol : Symbols, NewPrice : EventPrices, Timestamp : Stamps]

\* lines 326-328: big.Int Div by 100, then to float64; the result in mills
PriceFloat(newPrice) == (newPrice \div 100) * 1000

\* lines 332-336: the observation emitted for an event
ObservationOf(event) ==
    [Symbol |-> event.Symbol, Amount |-> PriceFloat(event.NewPrice), Type |-> "USD"]

\* lines 300-309 and 311: WatchPriceChanged succeeds and the goroutine starts
ListenerSubscribeOk ==
    /\ lpc = "start"
    /\ lpc' = "select"
    /\ UNCHANGED <<exceptListener, ctxDone, onChainPrices, lev, out, outClosed, unsubs,
                   evLog, outLog>>
    /\ Forget

\* lines 303-307: WatchPriceChanged fails and the function returns
ListenerSubscribeFail ==
    /\ lpc = "start"
    /\ lpc' = "failed"
    /\ UNCHANGED <<exceptListener, ctxDone, onChainPrices, lev, out, outClosed, unsubs,
                   evLog, outLog>>
    /\ Forget

\* (mutant) events older than the last one applied to the symbol are dropped
ListenerEventNewestWins ==
    /\ lpc = "select"
    /\ Len(evLog) < MaxEvents
    /\ \E event \in Events :
          /\ evLog' = Append(evLog, event)
          /\ IF \E i \in 1..Len(evLog) : /\ evLog[i].Symbol = event.Symbol
                                         /\ evLog[i].Timestamp > event.Timestamp
             THEN UNCHANGED <<onChainPrices, lev, lpc>>
             ELSE /\ onChainPrices' =
                       [onChainPrices EXCEPT ![event.Symbol] = PriceFloat(event.NewPrice)]
                  /\ lev' = ObservationOf(event)
                  /\ lpc' = "send"
    /\ UNCHANGED <<exceptListener, ctxDone, out, outClosed, unsubs, outLog>>
    /\ Forget

\* case event := <-logs, lines 322-330: an event is received and applied
ListenerEvent ==
    /\ lpc = "select"
    /\ Len(evLog) < MaxEvents
    /\ \E event \in Events :
          /\ evLog' = Append(evLog, event)
          /\ onChainPrices' =
                [onChainPrices EXCEPT ![event.Symbol] = PriceFloat(event.NewPrice)]
          /\ lev' = ObservationOf(event)
    /\ lpc' = "send"
    /\ UNCHANGED <<exceptListener, ctxDone, out, outClosed, unsubs, outLog>>
    /\ Forget

\* lines 332-336: out <- price, which waits while the channel is full
ListenerSend ==
    /\ lpc = "send"
    /\ Len(out) < OutCap
    /\ out' = Append(out, lev)
    /\ lev' = NoPrice
    /\ lpc' = "select"
    /\ UNCHANGED <<exceptListener, ctxDone, onChainPrices, outClosed, unsubs, evLog,
                   outLog>>
    /\ Forget

\* case err := <-sub.Err(), lines 318-321: return; the deferred close(out) and
\* sub.Unsubscribe() run
ListenerSubErr ==
    /\ lpc = "select"
    /\ lpc' = "done"
    /\ outClosed' = outClosed + 1
    /\ unsubs' = unsubs + 1
    /\ UNCHANGED <<exceptListener, ctxDone, onChainPrices, lev, out, evLog, outLog>>
    /\ Forget

\* (mutant) on cancellation the goroutine returns without its deferred calls
ListenerCtxDoneNoCleanup ==
    /\ lpc = "select"
    /\ ctxDone
    /\ lpc' = "done"
    /\ UNCHANGED <<exceptListener, ctxDone, onChainPrices, lev, out, outClosed, unsubs,
                   evLog, outLog>>
    /\ Forget

\* case <-ctx.Done(), lines 337-340: return; the deferred calls run
ListenerCtxDone ==
    /\ lpc = "select"
    /\ ctxDone
    /\ lpc' = "done"
    /\ outClosed' = outClosed + 1
    /\ unsubs' = unsubs + 1
    /\ UNCHANGED <<exceptListener, ctxDone, onChainPrices, lev, out, evLog, outLog>>
    /\ Forget

\* main.go, lines 62-66: the consumer receives an observation and logs it
OutRecv ==
    /\ out # <<>>
    /\ out' = Tail(out)
    /\ outLog' = Append(outLog, Head(out))
    /\ UNCHANGED <<exceptListener, ctxDone, onChainPrices, lpc, lev, outClosed, unsubs,
                   evLog>>
    /\ Forget

----------------------------------------------------------------------------
(* CoinGecko.getPrices, called on its own *)

\* the currencies of a response
Currencies == {"usd", "eur"}

\* strings.ToUpper on the currencies of the model
ToUpper(c) == IF c = "usd" THEN "USD" ELSE IF c = "eur" THEN "EUR" ELSE c

\* what the API answers for one symbol: nothing, its USD amount, or its USD
\* and EUR amounts
CurrencyPrices(symbol) ==
    {{}} \cup {{<<symbol, "usd", a>>} : a \in Amounts}
         \cup {{<<symbol, "usd", a>>, <<symbol, "eur", 1000>>} : a \in Amounts}

\* the decoded responses, symbol -> currency -> amount, as sets of triples
Responses ==
    {b \cup e : b \in CurrencyPrices("bitcoin"), e \in CurrencyPrices("ethereum")}

\* (mutant) the currency type is copied as the response spells it
PriceOfAsSpelled(entry) == [Symbol |-> entry[1], Amount |-> entry[3], Type |-> entry[2]]

\* the observation made of one entry of a response
PriceOf(entry) == [Symbol |-> entry[1], Amount |-> entry[3], Type |-> ToUpper(entry[2])]

\* the sequences that list every member of a set once: Go ranges over a map
\* in an order of its choosing
Orderings(set) ==
    {seq \in [1..Cardinality(set) -> set] :
        \A i, j \in 1..Cardinality(set) : seq[i] = seq[j] => i = j}

\* the ways getPrices can fail: client.Do fails, the status is not 200, the
\* body does not decode
FetchErrors == {"transport", "status", "decode"}

\* (mutant) a failed decode has already emptied the cache of USD amounts
GetPricesFailResets ==
    /\ \E err \in FetchErrors : fret' = [err |-> err, prices |-> <<>>]
    /\ fraw' = {}
    /\ geckoApiPrices' = [symbol \in Symbols |-> Absent]
    /\ UNCHANGED exceptGecko
    /\ Forget

\* getPrices returning at line 57, 63 or 68: nil and an error
GetPricesFail ==
    /\ \E err \in FetchErrors : fret' = [err |-> err, prices |-> <<>>]
    /\ fraw' = {}
    /\ UNCHANGED <<exceptGecko, geckoApiPrices>>
    /\ Forget

\* getPrices on a response that decodes: the cache takes the USD amount of
\* every symbol of the response and the observations are returned
GetPricesOk ==
    /\ \E raw \in Responses :
          /\ fraw' = raw
          /\ geckoApiPrices' =
                [symbol \in Symbols |->
                    IF \E entry \in raw : entry[1] = symbol /\ entry[2] = "usd"
                    THEN (CHOOSE entry \in raw : entry[1] = symbol /\ entry[2] = "usd")[3]
                    ELSE geckoApiPrices[symbol]]
          /\ \E order \in Orderings(raw) :
                fret' = [err |-> "nil", prices |-> [i \in DOMAIN order |-> PriceOf(order[i])]]
    /\ UNCHANGED exceptGecko
    /\ Forget

----------------------------------------------------------------------------
(* RealChainlinkPricer.getChainlinkPrice, called on its own.  The answer of  *)
(* a feed is an int256 and the price returned an int64: a whole number is    *)
(* written hi * 2^64 + lo, with lo standing for an int64 value, so that the  *)
(* conversion big.Int.Int64 is the loss of hi.                                *)

\* the symbols getChainlinkPrice is asked for; addresses has the first two
PricerSymbols == {"bitcoin", "ethereum", "dogecoin"}

\* answer = quot * 1e6 + rem with 0 <= rem < 1e6: what latestRoundData can
\* answer, by the quotient and the remainder of the answer
IntAnswers ==
    [kind : {"int"}, hi : {0}, lo : (0 - 3)..3, rem : {0, 1, 999999}]
        \cup [kind : {"int"}, hi : {1}, lo : 0..3, rem : {0, 1, 999999}]

\* what the call of latestRoundData can come to: an error, an answer of
\* another type, a nil *big.Int, or a *big.Int
FeedOutcomes ==
    {[kind |-> "callError"], [kind |-> "otherType"], [kind |-> "nil"]} \cup IntAnswers

\* line 137, new(big.Int).Div(answer, big.NewInt(1e6)): the quotient
DivMillion(answer) == [hi |-> answer.hi, lo |-> answer.lo]

\* line 137, big.Int.Int64: the low 64 bits
Int64Of(x) == [hi |-> 0, lo |-> x.lo]

\* getChainlinkPrice, lines 118-141: the price and the error returned, and the
\* number of contract calls made
GetChainlinkPrice(symbol, outcome) ==
    IF symbol \notin {"bitcoin", "ethereum"}
    THEN [err |-> "noFeed", price |-> [hi |-> 0, lo |-> 0], calls |-> 0]
    ELSE IF outcome.kind = "callError"
    THEN [err |-> "fetch", price |-> [hi |-> 0, lo |-> 0], calls |-> 1]
    ELSE IF outcome.kind \in {"otherType", "nil"}
    THEN [err |-> "invalid", price |-> [hi |-> 0, lo |-> 0], calls |-> 1]
    ELSE [err |-> "nil", price |-> Int64Of(DivMillion(outcome)), calls |-> 1]

\* one call of getChainlinkPrice
CallGetChainlinkPrice ==
    /\ \E symbol \in PricerSymbols, outcome \in FeedOutcomes :
          /\ cin' = [symbol |-> symbol, outcome |-> outcome]
          /\ cret' = GetChainlinkPrice(symbol, outcome)
    /\ UNCHANGED exceptPricer
    /\ Forget

----------------------------------------------------------------------------
(* config.NewConfig, called on its own.  The contract address, the private  *)
(* key and the token list are strings of characters, written as sequences;  *)
(* the two URLs are told apart by what url.ParseRequestURI makes of them.    *)

\* the string of n characters c
Repeat(c, n) == [i \in 1..n |-> c]

HexDigits ==
    {"0", "1", "2", "3", "4", "5", "6", "7", "8", "9",
     "a", "b", "c", "d", "e", "f", "A", "B", "C", "D", "E", "F"}

\* isHex, lines 86-93
isHex(str) == \A i \in 1..Len(str) : str[i] \in HexDigits

\* common.IsHexAddress of go-ethereum: an optional 0x or 0X, then 40 hex digits
IsHexAddress(str) ==
    LET has0xPrefix == Len(str) >= 2 /\ str[1] = "0" /\ str[2] \in {"x", "X"}
        digits == IF has0xPrefix THEN SubSeq(str, 3, Len(str)) ELSE str
    IN  Len(digits) = 40 /\ isHex(digits)

\* strings.Split(str, ","): the pieces between the commas
RECURSIVE SplitComma(_)
SplitComma(str) ==
    IF \A i \in 1..Len(str) : str[i] # "," THEN <<str>>
    ELSE LET first == CHOOSE i \in 1..Len(str) :
                          str[i] = "," /\ \A j \in 1..(i - 1) : str[j] # ","
         IN  <<SubSeq(str, 1, first - 1)>> \o SplitComma(SubSeq(str, first + 1, Len(str)))

\* strings.TrimSpace on strings whose only white space is the blank
RECURSIVE TrimSpace(_)
TrimSpace(str) ==
    IF str = <<>> THEN str
    ELSE IF str[1] = " " THEN TrimSpace(Tail(str))
    ELSE IF str[Len(str)] = " " THEN TrimSpace(SubSeq(str, 1, Len(str) - 1))
    ELSE str

\* url.ParseRequestURI returns an error for these
UnparsableURLs == {"", "invalid-url"}

\* the values of the environment variables
EnvURLs == {"", "invalid-url", "http://test.com"}
EnvContracts ==
    {<<>>, <<"0", "x">> \o Repeat("a", 40), Repeat("A", 40), <<"0", "x">> \o Repeat("a", 39),
     <<"0", "x">> \o Repeat("a", 39) \o <<"g">>}
EnvKeys ==
    {<<>>, Repeat("1", 64), Repeat("f", 63), Repeat("f", 65), Repeat("1", 63) \o <<"g">>,
     <<"0", "x">> \o Repeat("1", 62)}
EnvTokens ==
    {<<>>, <<"b">>, <<"b", ",", "e">>, <<"b", ",", " ", "e">>, <<"b", ",", ",", "e">>,
     <<"b", ",">>, <<" ">>, <<"b", ",", " ", ",", "e">>}

\* the environments: the values of the variables and the variables not set
Environments ==
    [PRECISION : {"2"}, TOKENS : EnvTokens, URL : EnvURLs, ALCHEMY : EnvURLs,
     CONTRACT : EnvContracts, PRIVATEKEY : EnvKeys,
     unset : SUBSET {"PRECISION", "URL", "TOKENS"}]

\* the options passed to NewConfig: none, or WithPrecision("8")
OptionLists == {<<>>, <<"8">>}

\* the nil *Config
NilConfig == [nil |-> TRUE]

\* (mutant) validate that tests the length of the private key only
ValidateKeyLength(c) ==
    /\ c.Url # "" /\ c.Url \notin UnparsableURLs
    /\ c.Alchemy # "" /\ c.Alchemy \notin UnparsableURLs
    /\ IsHexAddress(c.Contract)
    /\ Len(c.PrivateKey) = 64
    /\ c.Tokens # <<>>
    /\ LET tokens == SplitComma(c.Tokens)
       IN  \A i \in 1..Len(tokens) : TrimSpace(tokens[i]) # <<>>

\* Config.validate, lines 47-83: TRUE when it returns nil
Validate(c) ==
    /\ c.Url # "" /\ c.Url \notin UnparsableURLs
    /\ c.Alchemy # "" /\ c.Alchemy \notin UnparsableURLs
    /\ IsHexAddress(c.Contract)
    /\ Len(c.PrivateKey) = 64 /\ isHex(c.PrivateKey)
    /\ c.Tokens # <<>>
    /\ LET tokens == SplitComma(c.Tokens)
       IN  \A i \in 1..Len(tokens) : TrimSpace(tokens[i]) # <<>>

\* NewConfig, lines 96-124.  envconfig.Process fails when a variable marked
\* required is not set; Precision gets "6" when the environment gives none;
\* then the options, then validate
NewConfig(env, opts) ==
    IF env.unset \cap {"TOKENS", "URL", "ALCHEMY", "CONTRACT", "PRIVATEKEY"} # {}
    THEN [err |-> TRUE, cfg |-> NilConfig]
    ELSE LET processed == [Precision |-> IF "PRECISION" \in env.unset THEN "" ELSE env.PRECISION,
                           Tokens |-> env.TOKENS, Url |-> env.URL, Alchemy |-> env.ALCHEMY,
                           Contract |-> env.CONTRACT, PrivateKey |-> env.PRIVATEKEY]
             defaulted == IF processed.Precision = ""
                          THEN [processed EXCEPT !.Precision = "6"] ELSE processed
             cfg == IF opts = <<>> THEN defaulted
                    ELSE [defaulted EXCEPT !.Precision = opts[1]]
         IN  IF Validate(cfg) THEN [err |-> FALSE, cfg |-> cfg]
             ELSE [err |-> TRUE, cfg |-> NilConfig]

\* the call of NewConfig: main makes one, when it starts
CallNewConfig ==
    /\ nin = NoCall
    /\ \E env \in Environments, opts \in OptionLists :
          /\ nin' = [env |-> env, opts |-> opts]
          /\ nret' = NewConfig(env, opts)
    /\ UNCHANGED exceptConfig
    /\ Forget

----------------------------------------------------------------------------
(* The HTTP handlers of main: one call of each at a time in the model *)

\* the symbols that have an entry in the outer map
SymbolsIn(prices) ==
    {symbol \in CacheSymbols : \E t \in Types : prices[<<symbol, t>>] # Absent}

\* the inner map of a symbol: the keys present, with their amounts
EntriesOf(prices, symbol) ==
    {k \in {symbol} \X Types : prices[k] # Absent}

\* the requests sent to /set-price: the method, whether the body decodes, and
\* the fields of the decoded body
Requests ==
    [Method : {"OPTIONS", "GET", "POST"}, Decodes : BOOLEAN,
     Symbol : {"", "bitcoin", "Bitcoin", "ethereum", "dogecoin"},
     Type : {"", "USD", "EUR", "usd"},
     Amount : {0 - 1000, 0, 1155}]

\* setPriceHandler, lines 153-193: the status it answers a request with
StatusOf(req) ==
    IF req.Method = "OPTIONS" THEN 200
    ELSE IF req.Method # "POST" THEN 405
    ELSE IF ~req.Decodes THEN 400
    ELSE IF req.Symbol = "" \/ req.Amount <= 0 \/ req.Type = "" THEN 400
    ELSE IF req.Type # "USD" /\ req.Type # "EUR" THEN 400
    ELSE IF ToLower(req.Symbol) \notin {"bitcoin", "ethereum"} THEN 404
    ELSE 200

\* pricesHandler, lines 111-121: a GET request arrives
GetBegin ==
    /\ gpc = "idle"
    /\ gpc' = "rlock"
    /\ UNCHANGED <<exceptHandlers, apiPrices, mu, gkeys, gsnap, spc, supd, sresp>>
    /\ Forget

\* (mutant) the read lock is taken without waiting for a writer to release
GetRLockNoWait ==
    /\ gpc = "rlock"
    /\ mu' = [mu EXCEPT !.r = @ \cup {"get"}]
    /\ gkeys' = SymbolsIn(apiPrices)
    /\ gsnap' = <<>>
    /\ gpc' = IF SymbolsIn(apiPrices) = {} THEN "runlock" ELSE "read"
    /\ UNCHANGED <<exceptHandlers, apiPrices, spc, supd, sresp>>
    /\ Forget

\* line 125, mu.RLock(): granted when no writer holds the lock
GetRLock ==
    /\ gpc = "rlock"
    /\ mu.w = "none"
    /\ mu' = [mu EXCEPT !.r = @ \cup {"get"}]
    /\ gkeys' = SymbolsIn(apiPrices)
    /\ gsnap' = <<>>
    /\ gpc' = IF SymbolsIn(apiPrices) = {} THEN "runlock" ELSE "read"
    /\ UNCHANGED <<exceptHandlers, apiPrices, spc, supd, sresp>>
    /\ Forget

\* lines 126-134: one iteration of the loop over the symbols of apiPrices,
\* which collects every currency of the symbol
GetRead ==
    /\ gpc = "read"
    /\ \E symbol \in gkeys :
          /\ gkeys' = gkeys \ {symbol}
          /\ gsnap' = [k \in DOMAIN gsnap \cup EntriesOf(apiPrices, symbol) |->
                         IF k \in DOMAIN gsnap THEN gsnap[k] ELSE apiPrices[k]]
          /\ gpc' = IF gkeys = {symbol} THEN "runlock" ELSE "read"
    /\ UNCHANGED <<exceptHandlers, apiPrices, mu, spc, supd, sresp>>
    /\ Forget

\* line 135, mu.RUnlock(), and the response, lines 137-145
GetRUnlock ==
    /\ gpc = "runlock"
    /\ mu' = [mu EXCEPT !.r = @ \ {"get"}]
    /\ gpc' = "idle"
    /\ gkeys' = {}
    /\ gsnap' = <<>>
    /\ UNCHANGED <<exceptHandlers, apiPrices, spc, supd, sresp>>
    /\ Forget

\* setPriceHandler, lines 149-193: a request that passes every test
SetBegin ==
    /\ spc = "idle"
    /\ \E req \in Requests :
          /\ req.Method = "POST"
          /\ StatusOf(req) = 200
          /\ supd' = [Symbol |-> req.Symbol, Type |-> req.Type, Amount |-> req.Amount]
    /\ spc' = "lock"
    /\ sresp' = 0
    /\ UNCHANGED <<exceptHandlers, apiPrices, mu, gpc, gkeys, gsnap>>
    /\ Forget

\* setPriceHandler returning at line 155, 160, 171, 176, 182 or 192: the
\* preflight request, and the requests that fail a test
SetReject ==
    /\ spc = "idle"
    /\ \E req \in Requests :
          /\ req.Method # "POST" \/ StatusOf(req) # 200
          /\ sresp' = StatusOf(req)
    /\ UNCHANGED <<exceptHandlers, apiPrices, mu, gpc, gkeys, gsnap, spc, supd>>
    /\ Forget

\* line 195, mu.Lock(): granted when nobody holds the lock
SetLock ==
    /\ spc = "lock"
    /\ mu = Unlocked
    /\ mu' = [w |-> "set", r |-> {}]
    /\ spc' = "store"
    /\ UNCHANGED <<exceptHandlers, apiPrices, gpc, gkeys, gsnap, supd, sresp>>
    /\ Forget

\* lines 196-199: the update is stored
SetStore ==
    /\ spc = "store"
    /\ apiPrices' = [apiPrices EXCEPT ![<<supd.Symbol, supd.Type>>] = supd.Amount]
    /\ spc' = "unlock"
    /\ UNCHANGED <<exceptHandlers, mu, gpc, gkeys, gsnap, supd, sresp>>
    /\ Forget

\* line 200, mu.Unlock(), and the response
SetUnlock ==
    /\ spc = "unlock"
    /\ mu' = Unlocked
    /\ spc' = "idle"
    /\ supd' = NoPrice
    /\ sresp' = 200
    /\ UNCHANGED <<exceptHandlers, apiPrices, gpc, gkeys, gsnap>>
    /\ Forget

----------------------------------------------------------------------------
(* The accesses to the map onChainPrices.  A map access is not atomic: each  *)
(* one is a step that begins it and a step that completes it.  The code      *)
(* takes no lock around any of the three.  When an access begins while the   *)
(* other routine is executing a conflicting one, the Go runtime may stop the *)
(* process ("concurrent map read and map write", "concurrent map writes")    *)
(* or may not notice.                                                        *)

\* the outcomes of beginning an access while the other routine executes `other`
MayBeFatal(other) == IF other = NoAccess THEN {FALSE} ELSE BOOLEAN

\* listener, line 330: the store of an event's price begins
AccListenerStoreBegin ==
    /\ ~fatal
    /\ lAcc = NoAccess
    /\ \E event \in Events :
          lAcc' = [kind |-> "write", symbol |-> event.Symbol,
                   value |-> PriceFloat(event.NewPrice)]
    /\ fatal' \in MayBeFatal(wAcc)
    /\ UNCHANGED <<ctxDone, onChainPrices, boundCache, priceCh, writerVars, mainVars,
                   listenerVars, handlerVars, pollerVars, callVars,
                   wAcc>>
    /\ Forget

\* listener, line 330: the store completes
AccListenerStoreEnd ==
    /\ ~fatal
    /\ lAcc # NoAccess
    /\ onChainPrices' = [onChainPrices EXCEPT ![lAcc.symbol] = lAcc.value]
    /\ lAcc' = NoAccess
    /\ UNCHANGED <<ctxDone, boundCache, priceCh, writerVars, mainVars, listenerVars,
                   handlerVars, pollerVars, callVars, wAcc, fatal>>
    /\ Forget

\* validatePrice, line 383: the read of the symbol's price begins
AccWriterReadBegin ==
    /\ ~fatal
    /\ wAcc = NoAccess
    /\ \E symbol \in Symbols : wAcc' = [kind |-> "read", symbol |-> symbol, value |-> 0]
    /\ fatal' \in MayBeFatal(lAcc)
    /\ UNCHANGED <<ctxDone, onChainPrices, boundCache, priceCh, writerVars, mainVars,
                   listenerVars, handlerVars, pollerVars, callVars,
                   lAcc>>
    /\ Forget

\* writeToChain, line 418: the store of the price written begins
AccWriterStoreBegin ==
    /\ ~fatal
    /\ wAcc = NoAccess
    /\ \E symbol \in Symbols, amount \in Amounts :
          wAcc' = [kind |-> "write", symbol |-> symbol, value |-> amount]
    /\ fatal' \in MayBeFatal(lAcc)
    /\ UNCHANGED <<ctxDone, onChainPrices, boundCache, priceCh, writerVars, mainVars,
                   listenerVars, handlerVars, pollerVars, callVars,
                   lAcc>>
    /\ Forget

\* lines 383 and 418: the writer's access completes
AccWriterEnd ==
    /\ ~fatal
    /\ wAcc # NoAccess
    /\ onChainPrices' = IF wAcc.kind = "write"
                        THEN [onChainPrices EXCEPT ![wAcc.symbol] = wAcc.value]
                        ELSE onChainPrices
    /\ wAcc' = NoAccess
    /\ UNCHANGED <<ctxDone, boundCache, priceCh, writerVars, mainVars, listenerVars,
                   handlerVars, pollerVars, callVars, lAcc, fatal>>
    /\ Forget

----------------------------------------------------------------------------
(* The service *)

Next ==
    \/ Tick
    \/ Cancel
    \/ PollerSend
    \/ WriterRecv
    \/ WriterStop
    \/ WriterValidate
    \/ WriterSubmit
    \/ WriterSetReturn

Spec == Init /\ [][Next]_vars

\* The writer goroutine keeps running, and the calls it makes (oracle, contract)
\* return.
FairSpec ==
    /\ Spec
    /\ WF_vars(WriterValidate)
    /\ WF_vars(WriterSubmit)
    /\ WF_vars(WriterSetReturn)

\* As FairSpec; moreover the select of the writer, which chooses at random
\* among its ready cases, does not pass over the ctx.Done case for ever.
FairStopSpec ==
    /\ FairSpec
    /\ SF_vars(WriterStop)

\* The poller, the chain writer and the main loop, while the context is not
\* cancelled and within one TTL window
FlowNext ==
    \/ PollerSend
    \/ WriterRecv
    \/ WriterValidate
    \/ WriterSubmit
    \/ WriterSetReturn
    \/ MainRecv
    \/ MainLock
    \/ MainApply
    \/ MainUnlock

FlowSpec == Init /\ [][FlowNext]_vars

\* The listener, the consumer of out and the cancellation of the context
ListenNext ==
    \/ Cancel
    \/ ListenerSubscribeOk
    \/ ListenerSubscribeFail
    \/ ListenerEvent
    \/ ListenerSend
    \/ ListenerSubErr
    \/ ListenerCtxDone
    \/ OutRecv

ListenSpec == Init /\ [][ListenNext]_vars

\* A select with several ready cases chooses among them at random, so the
\* ctx.Done case is not passed over for ever; a send on out is completed once
\* there is room; the consumer keeps receiving.
FairListenSpec ==
    /\ ListenSpec
    /\ SF_vars(ListenerCtxDone)
    /\ WF_vars(ListenerSend)
    /\ WF_vars(OutRecv)

\* The goroutines main starts and its own loop, with cancel() called at some
\* moment.  The subscription delivers no event here and the main loop is the
\* one that receives the batches: the chain writer and the listener at work
\* are FairStopSpec and FairListenSpec
CancelNext ==
    \/ Cancel
    \/ PollerFetchFail
    \/ PollerFetchOk
    \/ PollerDeliver
    \/ PollerSleep
    \/ MainRecv
    \/ MainLock
    \/ MainApply
    \/ MainUnlock
    \/ WriterStop
    \/ ListenerSubscribeOk
    \/ ListenerSubscribeFail
    \/ ListenerSubErr
    \/ ListenerCtxDone

CancelSpec == Init /\ [][CancelNext]_vars

\* every goroutine that can take a step takes one in the end; a select with
\* the ctx.Done case ready again and again takes it in the end
FairCancelSpec ==
    /\ CancelSpec
    /\ WF_vars(PollerFetchFail \/ PollerFetchOk)
    /\ WF_vars(PollerDeliver)
    /\ WF_vars(PollerSleep)
    /\ WF_vars(MainRecv)
    /\ WF_vars(MainLock)
    /\ WF_vars(MainApply)
    /\ WF_vars(MainUnlock)
    /\ SF_vars(WriterStop)
    /\ WF_vars(ListenerSubscribeOk \/ ListenerSubscribeFail)
    /\ SF_vars(ListenerCtxDone)

\* The chain writer fed by a test with batches of every currency type
FilterNext ==
    \/ TestSend
    \/ WriterRecv
    \/ WriterValidate
    \/ WriterSubmit
    \/ WriterSetReturn

FilterSpec == Init /\ [][FilterNext]_vars

\* The chain writer and the listener at work on the same map onChainPrices
ChainNext ==
    \/ PollerSend
    \/ WriterRecv
    \/ WriterValidate
    \/ WriterSubmit
    \/ WriterSetReturn
    \/ ListenerSubscribeOk
    \/ ListenerEvent
    \/ ListenerSend

ChainSpec == Init /\ [][ChainNext]_vars

\* The listener with a caller that never receives from out
NoConsumerNext ==
    \/ Cancel
    \/ ListenerSubscribeOk
    \/ ListenerSubscribeFail
    \/ ListenerEvent
    \/ ListenerSend
    \/ ListenerSubErr
    \/ ListenerCtxDone

NoConsumerSpec == Init /\ [][NoConsumerNext]_vars

\* the select does not pass over its ctx.Done case for ever, and a send on
\* out is completed once there is room
FairNoConsumerSpec ==
    /\ NoConsumerSpec
    /\ SF_vars(ListenerCtxDone)
    /\ WF_vars(ListenerSend)

\* getPrices called again and again, as its tests call it
GeckoNext ==
    \/ GetPricesFail
    \/ GetPricesOk

GeckoSpec == Init /\ [][GeckoNext]_vars

\* The poller loop step by step, with the main loop taking the batches
PollerNext ==
    \/ PollerFetchFail
    \/ PollerFetchOk
    \/ PollerDeliver
    \/ PollerSleep
    \/ MainRecv
    \/ MainLock
    \/ MainApply
    \/ MainUnlock

PollerSpec == Init /\ [][PollerNext]_vars

\* NewConfig called in every environment
ConfigNext == CallNewConfig

ConfigSpec == Init /\ [][ConfigNext]_vars

\* getChainlinkPrice called again and again
PricerNext == CallGetChainlinkPrice

PricerSpec == Init /\ [][PricerNext]_vars

\* POST /set-price, one request after the other
SetPriceNext ==
    \/ SetBegin
    \/ SetReject
    \/ SetLock
    \/ SetStore
    \/ SetUnlock

SetPriceSpec == Init /\ [][SetPriceNext]_vars

\* The users of the shared price cache: the main loop, fed by the poller, and
\* the two HTTP handlers
CacheNext ==
    \/ PollerSend
    \/ MainRecv
    \/ MainLock
    \/ MainApply
    \/ MainUnlock
    \/ GetBegin
    \/ GetRLock
    \/ GetRead
    \/ GetRUnlock
    \/ SetBegin
    \/ SetLock
    \/ SetStore
    \/ SetUnlock

CacheSpec == Init /\ [][CacheNext]_vars

\* The accesses of the listener and of the chain writer to onChainPrices
AccessNext ==
    \/ AccListenerStoreBegin
    \/ AccListenerStoreEnd
    \/ AccWriterReadBegin
    \/ AccWriterStoreBegin
    \/ AccWriterEnd

AccessSpec == Init /\ [][AccessNext]_vars

----------------------------------------------------------------------------
(* validatePrice called directly on a feed whose onChainPrices are given,  *)
(* as TestValidatePrice does                                               *)

\* prices the feed may hold: none, 0.005, 1.00 and 1.155
OnChainInit == {0, 5, 1000, 1155}

\* candidate scaled prices
NewPrices == 0..MaxNewPrice

ValidateInit ==
    /\ ctxDone = FALSE
    /\ onChainPrices \in [Symbols -> OnChainInit]
    /\ boundCache = [s \in Symbols |-> NoEntry]
    /\ priceCh = <<>>
    /\ wpc = "select"
    /\ usdPrices = <<>>
    /\ wprices = <<>>
    /\ pending = {}
    /\ validPrices = <<>>
    /\ wi = 1
    /\ inFlight = 0
    /\ oracleFailed = {}
    /\ lastVal = NoVal
    /\ lastWrite = NoWrite
    /\ batchLog = <<>>
    /\ lastBatch = NoBatch
    /\ OtherInit

\* one call of validatePrice, with any candidate and any answer of the oracle
CallValidate ==
    /\ lastVal = NoVal
    /\ \E symbol \in Symbols, newPrice \in NewPrices, outcome \in OracleOutcomes :
          LET res == ValidatePrice(onChainPrices, boundCache, symbol, newPrice, outcome)
          IN  /\ boundCache' = res.cache
              /\ lastVal' = ValRecord(symbol, newPrice, outcome, res)
    /\ lastWrite' = NoWrite
    /\ lastBatch' = NoBatch
    /\ UNCHANGED otherVars
    /\ UNCHANGED <<ctxDone, onChainPrices, priceCh, writerVars>>

\* the caller has looked at the result and moves on
CallReturn ==
    /\ lastVal # NoVal
    /\ Forget
    /\ UNCHANGED otherVars
    /\ UNCHANGED <<ctxDone, onChainPrices, boundCache, priceCh, writerVars>>

\* getChainlinkBounds called with any symbol and any reference price
CallGetChainlinkBounds ==
    /\ bin = NoCall
    /\ \E symbol \in Symbols, chainlinkPrice \in RefPrices :
          LET b == GetChainlinkBounds(boundCache, symbol, chainlinkPrice)
          IN  /\ boundCache' = b.cache
              /\ bin' = [symbol |-> symbol, chainlinkPrice |-> chainlinkPrice,
                         pre |-> boundCache[symbol]]
              /\ bret' = [up |-> b.up, down |-> b.down]
    /\ UNCHANGED exceptBounds
    /\ Forget

\* validatePrice goes on with the bounds returned
BoundsReturn ==
    /\ bin # NoCall
    /\ bin' = NoCall
    /\ bret' = NoCall
    /\ UNCHANGED <<exceptBounds, boundCache>>
    /\ Forget

\* a minute passes between two calls
BoundsTick ==
    /\ bin = NoCall
    /\ Tick

BoundsNext ==
    \/ CallGetChainlinkBounds
    \/ BoundsReturn
    \/ BoundsTick

BoundsSpec == Init /\ [][BoundsNext]_vars

----------------------------------------------------------------------------
(* validatePrice and writeToChain of one symbol followed step by step, with  *)
(* the lock boundCacheMu.  The chain writer is the only caller.              *)

\* (mutant) the read lock is released only on the path that finds no fresh entry
GbRUnlockOnMiss ==
    /\ vpc = "runlock"
    /\ boundCacheMu' = IF vloc.hit THEN boundCacheMu
                       ELSE [boundCacheMu EXCEPT !.r = @ \ {"writer"}]
    /\ vpc' = IF vloc.hit THEN "decide" ELSE "lock"
    /\ UNCHANGED <<exceptLock, onChainPrices, boundCache, vloc>>
    /\ Forget

\* WritePricesToChain line 443: validatePrice(symbol, newPrice) is called
VpBegin ==
    /\ vpc = "idle"
    /\ \E symbol \in Symbols, amount \in Amounts :
          vloc' = [symbol |-> symbol, amount |-> amount, newPrice |-> Scaled(amount),
                   chainlinkPrice |-> 0, hit |-> FALSE, up |-> 0, down |-> 0]
    /\ vpc' = "oracle"
    /\ UNCHANGED <<exceptLock, onChainPrices, boundCache, boundCacheMu>>
    /\ Forget

\* lines 378-381: the oracle call returns
VpOracle ==
    /\ vpc = "oracle"
    /\ \E outcome \in OracleOutcomes :
          IF outcome.err
          THEN vpc' = "idle" /\ vloc' = NoCall
          ELSE vpc' = "rlock" /\ vloc' = [vloc EXCEPT !.chainlinkPrice = outcome.price]
    /\ UNCHANGED <<exceptLock, onChainPrices, boundCache, boundCacheMu>>
    /\ Forget

\* line 347, boundCacheMu.RLock(): granted when no writer holds the lock
GbRLock ==
    /\ vpc = "rlock"
    /\ boundCacheMu.w = "none"
    /\ boundCacheMu' = [boundCacheMu EXCEPT !.r = @ \cup {"writer"}]
    /\ vpc' = "lookup"
    /\ UNCHANGED <<exceptLock, onChainPrices, boundCache, vloc>>
    /\ Forget

\* lines 348-349: the entry of the symbol is read and its age tested
GbLookup ==
    /\ vpc = "lookup"
    /\ vloc' = IF CacheHit(boundCache, vloc.symbol)
               THEN [vloc EXCEPT !.hit = TRUE, !.up = boundCache[vloc.symbol].up,
                                 !.down = boundCache[vloc.symbol].down]
               ELSE vloc
    /\ vpc' = "runlock"
    /\ UNCHANGED <<exceptLock, onChainPrices, boundCache, boundCacheMu>>
    /\ Forget

\* lines 350 and 355, boundCacheMu.RUnlock(): on either path
GbRUnlock ==
    /\ vpc = "runlock"
    /\ boundCacheMu' = [boundCacheMu EXCEPT !.r = @ \ {"writer"}]
    /\ vpc' = IF vloc.hit THEN "decide" ELSE "lock"
    /\ UNCHANGED <<exceptLock, onChainPrices, boundCache, vloc>>
    /\ Forget

\* lines 359-366: the bounds are computed, then boundCacheMu.Lock(), granted
\* when nobody holds the lock
GbLock ==
    /\ vpc = "lock"
    /\ boundCacheMu = Unlocked
    /\ boundCacheMu' = [w |-> "writer", r |-> {}]
    /\ vloc' = [vloc EXCEPT !.up = MulTrunc(vloc.chainlinkPrice * 100, 120),
                            !.down = MulTrunc(vloc.chainlinkPrice * 100, 80)]
    /\ vpc' = "store"
    /\ UNCHANGED <<exceptLock, onChainPrices, boundCache>>
    /\ Forget

\* lines 367-371: the entry is stored with time.Now()
GbStore ==
    /\ vpc = "store"
    /\ boundCache' = [boundCache EXCEPT ![vloc.symbol] =
                          [up |-> vloc.up, down |-> vloc.down, age |-> 0]]
    /\ vpc' = "unlock"
    /\ UNCHANGED <<exceptLock, onChainPrices, boundCacheMu, vloc>>
    /\ Forget

\* line 372, boundCacheMu.Unlock()
GbUnlock ==
    /\ vpc = "unlock"
    /\ boundCacheMu' = Unlocked
    /\ vpc' = "decide"
    /\ UNCHANGED <<exceptLock, onChainPrices, boundCache, vloc>>
    /\ Forget

\* lines 383-406: validatePrice returns; WritePricesToChain goes on to
\* writeToChain when the price was accepted
VpDecide ==
    /\ vpc = "decide"
    /\ LET contractPrice == Scaled(onChainPrices[vloc.symbol])
           withinChainlinkBounds == vloc.newPrice >= vloc.down /\ vloc.newPrice <= vloc.up
           shouldWrite == IF contractPrice = 0 THEN withinChainlinkBounds
                          ELSE IF WithinContractBounds(contractPrice, vloc.newPrice) THEN FALSE
                          ELSE withinChainlinkBounds
       IN  IF shouldWrite THEN vpc' = "set" /\ vloc' = vloc
           ELSE vpc' = "idle" /\ vloc' = NoCall
    /\ UNCHANGED <<exceptLock, onChainPrices, boundCache, boundCacheMu>>
    /\ Forget

\* writeToChain, lines 410-420: the contract Set call is made and returns
VpSet ==
    /\ vpc = "set"
    /\ \E ok \in BOOLEAN :
          onChainPrices' = IF ok THEN [onChainPrices EXCEPT ![vloc.symbol] = vloc.amount]
                           ELSE onChainPrices
    /\ vpc' = "idle"
    /\ vloc' = NoCall
    /\ UNCHANGED <<exceptLock, boundCache, boundCacheMu>>
    /\ Forget

LockNext ==
    \/ VpBegin
    \/ VpOracle
    \/ GbRLock
    \/ GbLookup
    \/ GbRUnlock
    \/ GbLock
    \/ GbStore
    \/ GbUnlock
    \/ VpDecide
    \/ VpSet
    \/ Tick

LockSpec == Init /\ [][LockNext]_vars

----------------------------------------------------------------------------
(* A successful writeToChain followed by the PriceChanged event of that write *)

\* prices with two decimal places whose product by 100 is exact in float64:
\* 0.25, 0.50, 1.00, 1.25, 1.75, 2.00 and 2.50
TwoDecimalPrices == {250, 500, 1000, 1250, 1750, 2000, 2500}

\* writeToChain, lines 409-420, with a Set call that succeeds
RtWrite ==
    /\ \E symbol \in Symbols, price \in TwoDecimalPrices :
          /\ rt[symbol] = NoCall
          /\ onChainPrices' = [onChainPrices EXCEPT ![symbol] = price]
          /\ rt' = [rt EXCEPT ![symbol] =
                       [price |-> price, newPrice |-> Scaled(price), stage |-> "written"]]
    /\ UNCHANGED exceptRoundTrip
    /\ Forget

\* the listener, lines 322-330: the event of a write is received and applied
RtEvent ==
    /\ \E symbol \in Symbols :
          /\ rt[symbol] # NoCall
          /\ rt[symbol].stage = "written"
          /\ onChainPrices' =
                [onChainPrices EXCEPT ![symbol] = PriceFloat(rt[symbol].newPrice)]
          /\ rt' = [rt EXCEPT ![symbol].stage = "applied"]
    /\ UNCHANGED exceptRoundTrip
    /\ Forget

\* the next write of the symbol can start
RtDone ==
    /\ \E symbol \in Symbols :
          /\ rt[symbol] # NoCall
          /\ rt[symbol].stage = "applied"
          /\ rt' = [rt EXCEPT ![symbol] = NoCall]
    /\ UNCHANGED <<exceptRoundTrip, onChainPrices>>
    /\ Forget

RoundTripNext ==
    \/ RtWrite
    \/ RtEvent
    \/ RtDone

RoundTripSpec == Init /\ [][RoundTripNext]_vars

ValidateNext ==
    \/ CallValidate
    \/ CallReturn
    \/ Tick

ValidateSpec == ValidateInit /\ [][ValidateNext]_vars

----------------------------------------------------------------------------
(* Properties of the validation algorithm, stated on the call just made *)

\* a call of validatePrice has just been made
Validated == lastVal.symbol # "none"

\* ... and the oracle answered it with a reference price
Answered == Validated /\ ~lastVal.outcome.err

\* the last known on-chain price of the call, scaled by 100
ContractPriceOf(v) == v.onChain \div 10

\* before the call the bounds cache held an entry for the symbol younger than
\* 2 minutes
HadFresh(v) == v.pre # NoEntry /\ v.pre.age < 2

\* within 20% of the scaled reference price the oracle returned to this call
WithinReference(v) ==
    /\ 10 * v.newPrice >= 8 * (100 * v.outcome.price)
    /\ 10 * v.newPrice <= 12 * (100 * v.outcome.price)

\* within the bounds of the cache entry found by the call
WithinCached(v) == v.newPrice >= v.pre.down /\ v.newPrice <= v.pre.up

\* within the reference bounds the call works with: those of the fresh cache
\* entry when there is one, else those of the reference price just returned
WithinBoundsInUse(v) == IF HadFresh(v) THEN WithinCached(v) ELSE WithinReference(v)

\* floor(0.98 * c) <= newPrice <= floor(1.02 * c)
WithinTwoPercent(v) ==
    LET c == ContractPriceOf(v)
    IN  /\ v.newPrice >= (98 * c) \div 100
        /\ v.newPrice <= (102 * c) \div 100

\* C1, as stated: with no prior on-chain price, validatePrice returns true iff
\* the candidate lies within 20% of the reference price returned to this call
C1_AcceptIffWithinThisReference ==
    (Answered /\ lastVal.onChain = 0) =>
        (~lastVal.err /\ (lastVal.ok <=> WithinReference(lastVal)))

\* C1, amended: with no prior on-chain price, validatePrice returns true iff the
\* candidate lies within the reference bounds in use: those of the fresh
\* bounds-cache entry of the symbol when there is one, else 20% around the
\* reference price returned to this call
C1_AcceptIffWithinBoundsInUse ==
    (Answered /\ lastVal.onChain = 0) =>
        (~lastVal.err /\ (lastVal.ok <=> WithinBoundsInUse(lastVal)))

\* C1 witness: a price with no prior on-chain value accepted on cached bounds
\* although it is outside 20% of the reference price of this call
C1_Witness ==
    /\ Answered
    /\ lastVal.onChain = 0
    /\ HadFresh(lastVal)
    /\ lastVal.ok
    /\ ~WithinReference(lastVal)

\* C2: with a non-zero scaled on-chain price c, every candidate with
\* floor(0.98c) <= newPrice <= floor(1.02c) is rejected, without an error when
\* the oracle answered, whatever the reference bounds are
C2_RejectWithinContractBounds ==
    (Validated /\ ContractPriceOf(lastVal) # 0 /\ WithinTwoPercent(lastVal)) =>
        (~lastVal.ok /\ (lastVal.err <=> lastVal.outcome.err))

\* C2 witness: a candidate at the lower end floor(0.98c), which is below 0.98c,
\* rejected although it lies within the reference bounds in use
C2_Witness ==
    /\ Answered
    /\ ContractPriceOf(lastVal) # 0
    /\ lastVal.newPrice = (98 * ContractPriceOf(lastVal)) \div 100
    /\ 100 * lastVal.newPrice < 98 * ContractPriceOf(lastVal)
    /\ WithinBoundsInUse(lastVal)
    /\ ~lastVal.ok

\* C3, as stated: with a non-zero on-chain price and a candidate outside the 2%
\* contract bounds, validatePrice returns true iff the candidate lies within
\* 20% of the reference price returned to this call
C3_OutsideAcceptIffWithinThisReference ==
    (Answered /\ ContractPriceOf(lastVal) # 0 /\ ~WithinTwoPercent(lastVal)) =>
        (lastVal.ok <=> WithinReference(lastVal))

\* C3, amended: with a non-zero on-chain price and a candidate outside the 2%
\* contract bounds, validatePrice returns true iff the candidate lies within
\* the reference bounds in use (those of the fresh cache entry when there is
\* one, else 20% around the reference price returned to this call)
C3_OutsideAcceptIffWithinBoundsInUse ==
    (Answered /\ ContractPriceOf(lastVal) # 0 /\ ~WithinTwoPercent(lastVal)) =>
        (~lastVal.err /\ (lastVal.ok <=> WithinBoundsInUse(lastVal)))

\* C3 witness: a candidate outside the contract bounds rejected on cached
\* bounds although it is within 20% of the reference price of this call
C3_Witness ==
    /\ Answered
    /\ ContractPriceOf(lastVal) # 0
    /\ ~WithinTwoPercent(lastVal)
    /\ HadFresh(lastVal)
    /\ WithinReference(lastVal)
    /\ ~lastVal.ok

\* C4, as stated: a validation that finds a bounds-cache entry of its symbol
\* within the TTL window makes no oracle call; one that finds none, or an
\* expired one, makes one call
C4_NoOracleCallWithinTTL ==
    Validated => (lastVal.calls = IF HadFresh(lastVal) THEN 0 ELSE 1)

\* C5: no validation works with a cache entry of 2 minutes or older: the entry
\* of the symbol after the call is younger than the TTL, an accepted price lies
\* within its bounds, and when the call found no entry or an expired one the
\* entry is the one computed from the reference price just returned, with age 0
C5_NoStaleBounds ==
    Answered =>
        LET e == boundCache[lastVal.symbol]
        IN  /\ e # NoEntry
            /\ e.age < 2
            /\ lastVal.ok => (lastVal.newPrice >= e.down /\ lastVal.newPrice <= e.up)
            /\ ~HadFresh(lastVal) =>
                  e = [up |-> (120 * (100 * lastVal.outcome.price)) \div 100,
                       down |-> (80 * (100 * lastVal.outcome.price)) \div 100,
                       age |-> 0]

\* C5 witness: a call that found an expired entry with other bounds and
\* replaced it
C5_Witness ==
    /\ Answered
    /\ lastVal.pre # NoEntry
    /\ lastVal.pre.age >= 2
    /\ boundCache[lastVal.symbol].up # lastVal.pre.up
    /\ boundCache[lastVal.symbol].age = 0

----------------------------------------------------------------------------
(* Properties of the write path *)

\* writeToChain has just returned
Written == lastWrite.symbol # "none"

\* C6: when the Set call of writeToChain(symbol, price) succeeds, onChainPrices
\* of the symbol becomes exactly price and no other entry changes; when it
\* fails, an error is returned and onChainPrices is unchanged
C6_WriteRoundTrip ==
    [][(wpc = "await" /\ lastWrite'.symbol # "none") =>
          /\ lastWrite'.symbol = validPrices[wi].Symbol
          /\ lastWrite'.price = validPrices[wi].Amount
          /\ IF lastWrite'.ok
             THEN onChainPrices' =
                    [onChainPrices EXCEPT ![lastWrite'.symbol] = lastWrite'.price]
             ELSE onChainPrices' = onChainPrices]_vars

\* C6 witness: a failed write of a symbol that holds an earlier price, one
\* that is not a whole number of hundredths
C6_Witness ==
    /\ Written
    /\ ~lastWrite.ok
    /\ onChainPrices[lastWrite.symbol] = 1155
    /\ lastWrite.price # 1155

\* C7: a failed write does not end the write loop: the next accepted price of
\* the batch is written next, and after the last one the writer is back at
\* its select, ready for the next batch
C7_FailedWriteDoesNotBlock ==
    [][(wpc = "await" /\ lastWrite'.symbol # "none" /\ ~lastWrite'.ok) =>
          IF wi < Len(validPrices)
          THEN wpc' = "write" /\ wi' = wi + 1 /\ validPrices' = validPrices
          ELSE wpc' = "select"]_vars

\* C7 witness: a write has failed and the next accepted price of the batch is
\* about to be written
C7_Witness ==
    /\ Written
    /\ ~lastWrite.ok
    /\ wpc = "write"
    /\ validPrices[wi].Symbol # lastWrite.symbol

\* C8: when the oracle fails for a symbol, validatePrice returns an error, the
\* onChainPrices and the bounds cache are unchanged, the symbol is not among
\* the accepted prices, the other symbols of the batch remain to be
\* validated, and no Set call is made for a symbol whose oracle call failed
\* in the batch
C8_OracleFailureSkipsSymbol ==
    /\ [](wpc \in {"write", "await"} =>
            \A i \in 1..Len(validPrices) : validPrices[i].Symbol \notin oracleFailed)
    /\ [][(wpc = "validate" /\ lastVal'.symbol # "none" /\ lastVal'.outcome.err) =>
            /\ lastVal'.err
            /\ boundCache' = boundCache
            /\ onChainPrices' = onChainPrices
            /\ inFlight' = inFlight
            /\ pending' = pending \ {lastVal'.symbol}
            /\ \A i \in 1..Len(validPrices') : validPrices'[i].Symbol # lastVal'.symbol
            /\ pending' # {} => (wpc' = "validate" /\ usdPrices' = usdPrices)
            /\ wpc' # "select" => validPrices' = validPrices]_vars

\* C8 witness: the Set call of one symbol is in progress in a batch in which
\* the oracle call of the other symbol failed
C8_Witness ==
    /\ wpc = "await"
    /\ oracleFailed # {}
    /\ validPrices[wi].Symbol \notin oracleFailed

\* an accepted price of the batch in progress is waiting for its write
AwaitingWrite(symbol) ==
    /\ wpc \in {"validate", "write"}
    /\ \E i \in wi..Len(validPrices) : validPrices[i].Symbol = symbol

\* the Set call for the symbol has been submitted
SetSubmitted(symbol) == wpc = "await" /\ validPrices[wi].Symbol = symbol

\* C9: every symbol that validation accepted eventually has a Set call
\* submitted for it, whatever the order of the iteration
C9_AcceptedEventuallyWritten ==
    \A symbol \in Symbols : AwaitingWrite(symbol) ~> SetSubmitted(symbol)

\* C9 witness: the Set call of the second accepted price of a batch, validated
\* in the order ethereum, bitcoin
C9_Witness ==
    /\ wpc = "await"
    /\ wi = 2
    /\ validPrices[1].Symbol = "ethereum"
    /\ validPrices[2].Symbol = "bitcoin"

\* C10: at most one Set call is in progress at any time
C10_OneSetCallAtATime == inFlight <= 1

\* C10 witness: the Set call of the second accepted price of a batch is in
\* progress, after the first has returned
C10_Witness ==
    /\ inFlight = 1
    /\ wpc = "await"
    /\ wi = 2
    /\ validPrices[1].Symbol = "bitcoin"

----------------------------------------------------------------------------
(* Properties of the data flow *)

\* a batch is taken from the price channel
BatchReceived == Len(priceCh') < Len(priceCh)

\* C11, as stated: every batch sent on the price channel is received by
\* WritePricesToChain, which builds usdPrices from it and validates every
\* symbol of it
C11_EveryBatchReachesWriter ==
    [][BatchReceived =>
          /\ wpc = "select"
          /\ usdPrices' = UsdPricesOf(Head(priceCh))
          /\ pending' = DOMAIN usdPrices'
          /\ wpc' = "validate"]_vars

\* C16: once the context is cancelled WritePricesToChain eventually returns,
\* also when batches keep arriving on its input channel
C16_WriterTerminates == ctxDone ~> (wpc = "stopped")

\* C16 witness: the writer has returned while a batch is waiting in the channel
C16_Witness == wpc = "stopped" /\ priceCh # <<>>

\* C17, as stated: the listener and the chain writer never execute accesses
\* to onChainPrices at the same time
C17_AccessesExclusive == ~(lAcc # NoAccess /\ wAcc # NoAccess)

----------------------------------------------------------------------------
(* Properties of the listener *)

\* the listener has just received an event and has not yet sent its observation
EventApplied == lpc = "send"

\* C12, as stated: for each event received the listener sets onChainPrices of
\* the event's symbol to the scaled price divided by 100 (a scaled price of 115
\* is the price 1.15) and emits an observation with that symbol, that amount
\* and type USD
C12_EventStoredAndEmitted ==
    EventApplied =>
        LET event == evLog[Len(evLog)]
        IN  /\ onChainPrices[event.Symbol] = 10 * event.NewPrice
            /\ lev = [Symbol |-> event.Symbol, Amount |-> 10 * event.NewPrice,
                      Type |-> "USD"]

\* C13, as stated: on every exit path of ListenOnChainPriceUpdate the output
\* channel has been closed exactly once
C13_ClosedOnceOnEveryExit == lpc \in {"done", "failed"} => outClosed = 1

\* C14: once the subscription has succeeded and the context is cancelled, with
\* the consumer receiving, the listener eventually has returned, unsubscribed
\* once and closed the output channel once; from then on nothing is added to
\* the channel
C14_CancelStopsListener ==
    /\ (lpc \in {"select", "send"} /\ ctxDone)
          ~> (lpc = "done" /\ outClosed = 1 /\ unsubs = 1)
    /\ [][lpc = "done" =>
            /\ lpc' = "done"
            /\ outClosed' = outClosed
            /\ unsubs' = unsubs
            /\ out' = out \/ (out # <<>> /\ out' = Tail(out))]_vars

\* C14 witness: the context is cancelled, the listener has returned after
\* events, and the consumer has received every observation
C14_Witness ==
    /\ ctxDone
    /\ lpc = "done"
    /\ outClosed = 1
    /\ unsubs = 1
    /\ evLog # <<>>
    /\ out = <<>>
    /\ Len(outLog) = Len(evLog)

\* the value of the event received last for the symbol, 0 when there is none
LastEventValue(symbol) ==
    LET idx == {i \in 1..Len(evLog) : evLog[i].Symbol = symbol}
    IN  IF idx = {} THEN 0
        ELSE PriceFloat(evLog[CHOOSE i \in idx : \A j \in idx : j <= i].NewPrice)

\* the observations emitted so far: received by the consumer, in the channel,
\* or being sent
Emitted == outLog \o out \o (IF lpc = "send" THEN <<lev>> ELSE <<>>)

\* C15: with no write in between, onChainPrices of a symbol holds the value of
\* the event received last for it, whatever the timestamps, and the
\* observations are emitted in the order the events were received
C15_ReceiptOrder ==
    /\ \A symbol \in Symbols : onChainPrices[symbol] = LastEventValue(symbol)
    /\ Emitted = [i \in 1..Len(evLog) |-> ObservationOf(evLog[i])]

\* C15 witness: two events of one symbol received out of chronological order,
\* both observations received by the consumer, the later-received older event
\* being the one that stays
C15_Witness ==
    /\ Len(evLog) = 2
    /\ Len(outLog) = 2
    /\ evLog[1].Symbol = evLog[2].Symbol
    /\ evLog[1].Timestamp > evLog[2].Timestamp
    /\ evLog[1].NewPrice = 250
    /\ evLog[2].NewPrice = 100
    /\ onChainPrices[evLog[2].Symbol] = 1000

\* amounts of the observations the listener emits
EventAmounts == {PriceFloat(newPrice) : newPrice \in EventPrices}

\* C19, as stated: every observation the listener emits on out is eventually
\* stored in the shared price cache under its symbol and type
C19_EmittedEventuallyCached ==
    \A symbol \in Symbols, amount \in EventAmounts :
        (out # <<>> /\ Head(out) = [Symbol |-> symbol, Amount |-> amount, Type |-> "USD"])
            ~> (apiPrices[<<symbol, "USD">>] = amount)

----------------------------------------------------------------------------
\* who is between taking and releasing the lock on the shared price cache
MainInCache == mpc \in {"apply", "unlock"}

GetInCache == gpc \in {"read", "runlock"}

SetInCache == spc \in {"store", "unlock"}

\* the main loop has stored some coins of its batch and not yet all of them
BatchPartlyApplied == mpc = "apply" /\ mi > 1

\* C18: the main loop, GET /prices and POST /set-price touch the shared price
\* cache only while holding the lock (the main loop and POST the write lock,
\* GET the read lock); a writer is never in the cache together with a reader
\* or another writer; and a reader never sees a partly applied batch: what it
\* has collected is what the cache holds, and no batch is half stored
C18_CacheAccessLocked ==
    /\ MainInCache => mu.w = "main"
    /\ SetInCache => mu.w = "set"
    /\ GetInCache => "get" \in mu.r
    /\ ~(MainInCache /\ SetInCache)
    /\ ~(GetInCache /\ (MainInCache \/ SetInCache))
    /\ GetInCache => /\ ~BatchPartlyApplied
                     /\ \A k \in DOMAIN gsnap : gsnap[k] = apiPrices[k]

\* a reader is in the middle of its loop while the main loop, holding a batch,
\* and a POST request both wait for the lock
C18_Witness ==
    /\ gpc = "read"
    /\ DOMAIN gsnap # {}
    /\ mpc = "lock"
    /\ Len(mdata) = 2
    /\ spc = "lock"

----------------------------------------------------------------------------
\* a step of the poller loop that comes out of getPrices with an error
FetchFailed == ppc = "fetch" /\ ppc' # "fetch" /\ perr'

\* a step of the poller loop that comes out of getPrices with observations
FetchSucceeded == ppc = "fetch" /\ ppc' # "fetch" /\ ~perr'

\* C20: the poller loop is always at its fetch, its send or its sleep, and
\* sends only what it fetched without error; a failed fetch leaves the channel
\* as it is and takes the loop to the sleep before the next fetch; a
\* successful fetch takes the loop to the send, the loop leaves the send only
\* by putting the whole fetched batch on the channel once, and the poller puts
\* nothing on the channel anywhere else
C20_PollerSkipsErrors ==
    /\ [](ppc \in {"fetch", "send", "sleep"})
    /\ [](ppc = "send" => ~perr)
    /\ [][/\ FetchFailed => priceCh' = priceCh /\ ppc' = "sleep"
          /\ FetchSucceeded => priceCh' = priceCh /\ ppc' = "send"
          /\ (ppc = "sleep" /\ ppc' # "sleep") => ppc' = "fetch" /\ priceCh' = priceCh
          /\ (ppc = "send" /\ ppc' # "send") =>
                 priceCh' = Append(priceCh, pdata) /\ ppc' = "sleep"
          /\ Len(priceCh') > Len(priceCh) => ppc = "send" /\ ppc' = "sleep"]_vars

\* a fetch has failed after an earlier batch of two observations was sent, and
\* the loop is on its way to the next fetch
C20_Witness ==
    /\ perr
    /\ ppc = "sleep"
    /\ Len(priceCh) = 1
    /\ Len(priceCh[1]) = 2

----------------------------------------------------------------------------
\* a call of getPrices that has returned an error
GetPricesFailed == fret' # fret /\ fret'.err \in FetchErrors

\* C21: a call of getPrices that returns an error (transport failure, status
\* other than 200, body that does not decode) returns no observations and
\* leaves the client's cache of USD amounts and every other shared state as
\* they were
C21_FailedFetchChangesNothing ==
    [][GetPricesFailed =>
          /\ fret'.prices = <<>>
          /\ geckoApiPrices' = geckoApiPrices
          /\ UNCHANGED <<priceCh, apiPrices, onChainPrices, boundCache>>]_vars

\* a fetch has failed while the cache holds the amounts of an earlier fetch
C21_Witness ==
    /\ fret.err = "decode"
    /\ geckoApiPrices["bitcoin"] = 1155
    /\ geckoApiPrices["ethereum"] = 1000

----------------------------------------------------------------------------
\* the symbols of the batch just processed
Processed == IF lastBatch.done THEN DOMAIN lastBatch.log ELSE {}

\* what the end-to-end claim promises for an entry of the log of a processed
\* batch: one Set call, made with the price scaled by 100, and, when that call
\* succeeded, the price of the batch as the last known on-chain price
WrittenOnce(symbol) ==
    LET entry == lastBatch.log[symbol]
    IN  /\ entry.sets = 1
        /\ entry.scaled = Scaled(entry.amount)
        /\ entry.ok => onChainPrices[symbol] = entry.amount

\* C22 as stated: a USD price of a processed batch that was outside 2% of the
\* on-chain price and within 20% of the reference price the oracle returned
\* has had exactly one Set call with the scaled price, and after a successful
\* write onChainPrices holds the batch price
C22_WrittenWhenWithinReference ==
    \A symbol \in Processed :
        (lastBatch.log[symbol].outside /\ lastBatch.log[symbol].withinReference)
            => WrittenOnce(symbol)

\* C22 as amended: the same for a USD price that was outside 2% of the
\* on-chain price and within the reference bounds in use, those of a fresh
\* bounds-cache entry or else 20% around the reference price returned
C22_WrittenWhenWithinBoundsInUse ==
    \A symbol \in Processed :
        (lastBatch.log[symbol].outside /\ lastBatch.log[symbol].withinInUse)
            => WrittenOnce(symbol)

\* a batch of two symbols has been processed: bitcoin was outside 2% of its
\* on-chain price and within the bounds in use, and its write at 1.155 has
\* just succeeded
C22_Witness ==
    /\ lastBatch.done
    /\ DOMAIN lastBatch.log = {"bitcoin", "ethereum"}
    /\ lastBatch.log["bitcoin"].amount = 1155
    /\ lastBatch.log["bitcoin"].outside
    /\ lastBatch.log["bitcoin"].withinInUse
    /\ lastBatch.log["bitcoin"].ok
    /\ lastWrite.symbol = "bitcoin"
    /\ lastWrite.price = 1155
    /\ onChainPrices["bitcoin"] = 1155

----------------------------------------------------------------------------
\* the coins of batch are in the shared price cache
Applied(batch) ==
    \A i \in 1..Len(batch) : apiPrices[<<batch[i].Symbol, batch[i].Type>>] = batch[i].Amount

----------------------------------------------------------------------------
\* a step in which setPriceHandler answers a request with an error status
Rejected == spc = "idle" /\ spc' = "idle" /\ sresp' \in {400, 404, 405}

\* C24: setPriceHandler changes the shared price cache only for a symbol of
\* the allow-list {bitcoin, ethereum}, a currency type of {USD, EUR} and a
\* positive amount, and a request it rejects leaves the cache as it was
C24_OnlyAllowListedUpdates ==
    [][/\ (spc = "store" /\ apiPrices' # apiPrices) =>
             /\ supd.Symbol \in {"bitcoin", "ethereum"}
             /\ supd.Type \in {"USD", "EUR"}
             /\ supd.Amount > 0
       /\ Rejected => apiPrices' = apiPrices]_vars

----------------------------------------------------------------------------
\* getChainlinkPrice has been called
PriceAsked == cin # NoCall

\* C25: getChainlinkPrice returns an error and calls no contract for a symbol
\* without a feed address; it returns an error and the price 0 when the call
\* fails or the answer is nil or not a *big.Int; and otherwise it returns no
\* error and the answer divided by 1e6
C25_PriceOrError ==
    PriceAsked =>
        IF cin.symbol \notin {"bitcoin", "ethereum"}
        THEN cret.err = "noFeed" /\ cret.calls = 0
        ELSE IF cin.outcome.kind \in {"callError", "otherType", "nil"}
        THEN cret.err # "nil" /\ cret.price = [hi |-> 0, lo |-> 0]
        ELSE cret.err = "nil" /\ cret.price = DivMillion(cin.outcome)

----------------------------------------------------------------------------
\* the last call of getPrices succeeded
Fetched == fret.err = "nil"

\* observation price is the one of the response entry <<symbol, currency, amount>>
ObservationFor(price, entry) ==
    /\ price.Symbol = entry[1]
    /\ price.Amount = entry[3]
    /\ \/ entry[2] = "usd" /\ price.Type = "USD"
       \/ entry[2] = "eur" /\ price.Type = "EUR"

----------------------------------------------------------------------------
\* NewConfig has been called
Configured == nin # NoCall

\* the value the environment gives a variable: the empty string when not set
EnvValue(env, name, value) == IF name \in env.unset THEN "" ELSE value

\* a URL the claim calls empty or malformed
BadURL(env, name, value) ==
    name \in env.unset \/ value = "" \/ value = "invalid-url"

\* str without its blanks
RECURSIVE NoBlanks(_)
NoBlanks(str) ==
    IF str = <<>> THEN <<>>
    ELSE IF str[1] = " " THEN NoBlanks(Tail(str))
    ELSE <<str[1]>> \o NoBlanks(Tail(str))

\* the token list is empty or has an empty token: apart from blanks, it is
\* empty, starts or ends with a comma, or has two commas in a row
BadTokens(env) ==
    \/ "TOKENS" \in env.unset
    \/ env.TOKENS = <<>>
    \/ LET t == NoBlanks(env.TOKENS)
       IN  \/ t = <<>>
           \/ t[1] = ","
           \/ t[Len(t)] = ","
           \/ \E i \in 1..(Len(t) - 1) : t[i] = "," /\ t[i + 1] = ","

\* the contract address is 40 hex digits, with or without 0x in front
GoodContract(env) ==
    LET c == env.CONTRACT
    IN  \/ Len(c) = 40 /\ \A i \in 1..40 : c[i] \in HexDigits
        \/ /\ Len(c) = 42 /\ c[1] = "0" /\ c[2] \in {"x", "X"}
           /\ \A i \in 3..42 : c[i] \in HexDigits

\* the private key is 64 hex characters
GoodKey(env) ==
    Len(env.PRIVATEKEY) = 64 /\ \A i \in 1..64 : env.PRIVATEKEY[i] \in HexDigits

\* C27: NewConfig returns an error and no config when a URL is empty or
\* malformed, the contract address is not a hex address, the private key is
\* not 64 hex characters, or the token list is empty or has an empty token;
\* otherwise it returns no error and the values of the environment, with the
\* precision of the option WithPrecision when one is passed, and the default
\* precision 6 when neither the option nor the environment gives one
C27_ConfigValidated ==
    Configured =>
        LET env == nin.env
        IN  IF \/ BadURL(env, "URL", env.URL)
               \/ BadURL(env, "ALCHEMY", env.ALCHEMY)
               \/ ~GoodContract(env)
               \/ ~GoodKey(env)
               \/ BadTokens(env)
            THEN nret.err /\ nret.cfg = NilConfig
            ELSE /\ ~nret.err
                 /\ nret.cfg.Tokens = env.TOKENS
                 /\ nret.cfg.Url = env.URL
                 /\ nret.cfg.Alchemy = env.ALCHEMY
                 /\ nret.cfg.Contract = env.CONTRACT
                 /\ nret.cfg.PrivateKey = env.PRIVATEKEY
                 /\ nret.cfg.Precision =
                        IF nin.opts # <<>> THEN nin.opts[1]
                        ELSE IF EnvValue(env, "PRECISION", env.PRECISION) # ""
                        THEN env.PRECISION ELSE "6"

\* a valid environment with precision 2 and the option WithPrecision("8")
C27_Witness ==
    /\ Configured
    /\ ~nret.err
    /\ nin.env.unset = {}
    /\ nin.env.PRECISION = "2"
    /\ nin.opts = <<"8">>
    /\ nret.cfg.Precision = "8"
    /\ Len(nret.cfg.Tokens) = 4

----------------------------------------------------------------------------
(* Properties of getChainlinkBounds, stated on the call just made *)

\* getChainlinkBounds has just returned
BoundsAsked == bin # NoCall

\* C28: a call of getChainlinkBounds that finds an entry of the symbol
\* younger than 2 minutes returns the bounds stored in it, whatever reference
\* price it was given, and leaves the entry and its age as they were; a call
\* that finds no entry or an expired one leaves the entry
\* up = floor(1.2 * 100 * ref), down = floor(0.8 * 100 * ref) with age 0
C28_FreshEntryReturnedUntouched ==
    BoundsAsked =>
        IF bin.pre # NoEntry /\ bin.pre.age < 2
        THEN /\ bret = [up |-> bin.pre.up, down |-> bin.pre.down]
             /\ boundCache[bin.symbol] = bin.pre
        ELSE boundCache[bin.symbol] =
                 [up |-> (12 * (100 * bin.chainlinkPrice)) \div 10,
                  down |-> (8 * (100 * bin.chainlinkPrice)) \div 10,
                  age |-> 0]

\* C28 witness: a call that found an entry one minute old, computed from
\* another reference price, and returned its bounds
C28_Witness ==
    /\ BoundsAsked
    /\ bin.pre # NoEntry
    /\ bin.pre.age = 1
    /\ bin.pre.up # (12 * (100 * bin.chainlinkPrice)) \div 10
    /\ bret.up = bin.pre.up
    /\ boundCache[bin.symbol].age = 1

----------------------------------------------------------------------------
(* Properties of the currency filter of WritePricesToChain *)

\* the batch in progress holds an observation of symbol and amount whose
\* currency type is USD in either case
HasUsdObservation(symbol, amount) ==
    \E i \in 1..Len(wprices) :
        /\ wprices[i].Symbol \in {symbol, IF symbol = "bitcoin" THEN "Bitcoin" ELSE symbol}
        /\ wprices[i].Amount = amount
        /\ wprices[i].Type \in {"USD", "usd"}

\* C29: every call of validatePrice (and so every oracle call), every contract
\* Set call and every change of onChainPrices made by WritePricesToChain is
\* for the symbol and the amount of an observation of the batch in progress
\* whose currency type is USD, in either case; observations of another
\* currency type cause none of them
C29_OnlyUsdObservationsProcessed ==
    [][/\ lastVal' # NoVal =>
             \E amount \in Amounts :
                 /\ amount \div 10 = lastVal'.newPrice
                 /\ HasUsdObservation(lastVal'.symbol, amount)
       /\ inFlight' > inFlight =>
             HasUsdObservation(validPrices[wi].Symbol, validPrices[wi].Amount)
       /\ \A symbol \in Symbols :
             onChainPrices'[symbol] # onChainPrices[symbol] =>
                 HasUsdObservation(symbol, onChainPrices'[symbol])]_vars

\* C29 witness: of a batch with a "usd" observation of bitcoin and a "EUR"
\* observation of ethereum the first has been validated and handed to Set,
\* and nothing is left to validate
C29_Witness ==
    /\ Len(wprices) = 2
    /\ wprices[1].Symbol = "bitcoin" /\ wprices[1].Type = "usd"
    /\ wprices[2].Symbol = "ethereum" /\ wprices[2].Type = "EUR"
    /\ pending = {}
    /\ wpc = "await"
    /\ onChainPrices["ethereum"] = 0

----------------------------------------------------------------------------
(* Properties of the map onChainPrices *)

\* the step is the return of a successful contract write for symbol
WroteNow(symbol) ==
    /\ lastWrite' # NoWrite
    /\ lastWrite'.symbol = symbol
    /\ lastWrite'.ok

\* the step is the receipt of a PriceChanged event for symbol
EventNow(symbol) ==
    /\ Len(evLog') = Len(evLog) + 1
    /\ evLog'[Len(evLog')].Symbol = symbol

\* C30: the entry of a symbol in onChainPrices changes only in a step that is
\* a successful contract write for that symbol or the receipt of a
\* PriceChanged event for that symbol; a validation, whatever its result, and
\* a failed write change no entry
C30_OnChainPricesChangedByWriteOrEvent ==
    [][/\ \A symbol \in Symbols :
             onChainPrices'[symbol] # onChainPrices[symbol] =>
                 WroteNow(symbol) \/ EventNow(symbol)
       /\ lastVal' # NoVal => onChainPrices' = onChainPrices
       /\ (lastWrite' # NoWrite /\ ~lastWrite'.ok) => onChainPrices' = onChainPrices]_vars

\* C30 witness: a write of bitcoin has just succeeded and stored its price,
\* while the entry of ethereum is the price of the event received last
C30_Witness ==
    /\ lastWrite # NoWrite
    /\ lastWrite.symbol = "bitcoin"
    /\ lastWrite.ok
    /\ onChainPrices["bitcoin"] = lastWrite.price
    /\ evLog # <<>>
    /\ evLog[Len(evLog)].Symbol = "ethereum"
    /\ onChainPrices["ethereum"] = (evLog[Len(evLog)].NewPrice \div 100) * 1000
    /\ onChainPrices["ethereum"] # lastWrite.price

----------------------------------------------------------------------------
(* Properties of the lock of the bounds cache *)

\* C31: the lookup in the bounds cache is made with the read lock of
\* boundCacheMu held and the store with its write lock held; the lock is free
\* while the oracle call and the contract Set call are in progress; and no
\* entry gets other bounds or a new time stamp in a step taken without the
\* write lock
C31_BoundCacheLocked ==
    /\ [](vpc = "lookup" => "writer" \in boundCacheMu.r)
    /\ [](vpc = "store" => boundCacheMu.w = "writer")
    /\ [](vpc \in {"oracle", "set"} => boundCacheMu = [w |-> "none", r |-> {}])
    /\ [][\A symbol \in Symbols :
             (/\ boundCache'[symbol] # boundCache[symbol]
              /\ boundCache'[symbol].age = 0)
                 => boundCacheMu.w = "writer"]_vars

\* C31 witness: a call found a fresh entry under the read lock and is now
\* making the contract Set call with the lock free
C31_Witness ==
    /\ vpc = "set"
    /\ vloc.hit
    /\ boundCacheMu = [w |-> "none", r |-> {}]
    /\ boundCache[vloc.symbol].age = 1

----------------------------------------------------------------------------
(* Properties of the channel shared by the chain writer and the main loop *)

\* the step hands the batch at the head of the channel to the chain writer
WriterTook ==
    /\ wpc = "select"
    /\ priceCh # <<>>
    /\ wprices' # wprices
    /\ wprices' = Head(priceCh)

\* the step hands the batch at the head of the channel to the main loop
MainTook ==
    /\ mpc = "recv"
    /\ priceCh # <<>>
    /\ mpc' = "lock"
    /\ mdata' = Head(priceCh)

\* C32: a batch leaves the price channel only in a step that hands it to the
\* chain writer or to the main loop, to one of them and not to the other, and
\* each of them gets a batch only by taking it out of the channel: the batch
\* the main loop applies to the cache is not the one the writer validates
C32_BatchTakenByOneConsumer ==
    [][/\ BatchReceived => (WriterTook /\ ~MainTook) \/ (MainTook /\ ~WriterTook)
       /\ (WriterTook \/ MainTook) => (BatchReceived /\ priceCh' = Tail(priceCh))
       /\ WriterTook => (mdata' = mdata /\ mpc' = mpc)
       /\ MainTook => (wprices' = wprices /\ usdPrices' = usdPrices /\ wpc' = wpc)]_vars

\* C32 witness: the main loop is applying one batch to the cache while the
\* chain writer is validating another
C32_Witness ==
    /\ mpc = "apply"
    /\ wpc = "validate"
    /\ mdata # <<>>
    /\ wprices # <<>>
    /\ mdata # wprices

----------------------------------------------------------------------------
(* Properties of the grouping by symbol in WritePricesToChain *)

\* the places in the batch in progress of the USD observations of a
\* lower-cased symbol
UsdPlaces(symbol) ==
    {i \in 1..Len(wprices) :
        /\ wprices[i].Symbol \in {symbol, IF symbol = "bitcoin" THEN "Bitcoin" ELSE symbol}
        /\ wprices[i].Type \in {"USD", "usd"}}

\* the amount of the last of them
LastUsdAmount(symbol) ==
    wprices[CHOOSE i \in UsdPlaces(symbol) : \A j \in UsdPlaces(symbol) : j <= i].Amount

\* C33: of the USD observations of a batch that have the same lower-cased
\* symbol, the last one is the one validated and the one handed to Set, and
\* when the batch is finished no symbol has had more than one Set call
C33_LastObservationOfSymbolWritten ==
    [][/\ lastVal' # NoVal =>
             /\ UsdPlaces(lastVal'.symbol) # {}
             /\ lastVal'.newPrice = LastUsdAmount(lastVal'.symbol) \div 10
       /\ inFlight' > inFlight =>
             /\ UsdPlaces(validPrices[wi].Symbol) # {}
             /\ validPrices[wi].Amount = LastUsdAmount(validPrices[wi].Symbol)
             /\ batchLog[validPrices[wi].Symbol].sets = 0
       /\ lastBatch'.done =>
             \A symbol \in DOMAIN lastBatch'.log : lastBatch'.log[symbol].sets <= 1]_vars

\* C33 witness: of a batch with "bitcoin" at 1.000 and then "Bitcoin" at 1.155
\* the second has been validated and handed to Set, once
C33_Witness ==
    /\ Len(wprices) = 2
    /\ wprices[1].Symbol = "bitcoin" /\ wprices[1].Type = "USD"
    /\ wprices[2].Symbol = "Bitcoin" /\ wprices[2].Amount # wprices[1].Amount
    /\ wpc = "await"
    /\ validPrices = <<[Symbol |-> "bitcoin", Amount |-> wprices[2].Amount, Type |-> "USD"]>>
    /\ batchLog["bitcoin"].sets = 1

----------------------------------------------------------------------------
(* Properties of the chain writer after the cancellation *)

\* C34, as stated: once the context is cancelled no step of
\* WritePricesToChain submits a contract Set call
C34_NoSetCallAfterCancel ==
    [][ctxDone => inFlight' <= inFlight]_vars

----------------------------------------------------------------------------
(* Properties of the listener without a consumer *)

\* C35, as stated: with the goroutine of the listener running and the context
\* cancelled, the goroutine eventually has returned and closed the output
\* channel, also when nobody receives from that channel
C35_ListenerStopsWithoutConsumer ==
    (ctxDone /\ lpc \in {"select", "send"}) ~> (lpc = "done" /\ outClosed = 1)

----------------------------------------------------------------------------
(* Properties of a write followed by its event *)

\* C36, as stated: after writeToChain(symbol, p) has succeeded and the
\* listener has applied the event that carries the scaled price of that write,
\* onChainPrices[symbol] is p, for p with two decimal places
C36_WriteEventRoundTrip ==
    \A symbol \in Symbols :
        (rt[symbol] # NoCall /\ rt[symbol].stage = "applied")
            => onChainPrices[symbol] = rt[symbol].price

----------------------------------------------------------------------------
(* Properties of the prices handed to the contract *)

\* the scaled price lies within the bounds of the symbol's bounds-cache entry
WithinCacheEntry(symbol, scaled) ==
    /\ boundCache[symbol] # NoEntry
    /\ scaled >= boundCache[symbol].down
    /\ scaled <= boundCache[symbol].up

\* C37: every price WritePricesToChain has accepted for writing, and the
\* scaled price of the Set call in progress, lie within the bounds that the
\* bounds cache holds for the symbol since its validation
C37_WrittenPriceWithinCachedBounds ==
    /\ \A i \in 1..Len(validPrices) :
          WithinCacheEntry(validPrices[i].Symbol, validPrices[i].Amount \div 10)
    /\ wpc = "await" =>
          WithinCacheEntry(validPrices[wi].Symbol, batchLog[validPrices[wi].Symbol].scaled)

\* C37 witness: the Set call for bitcoin at 1.155 is in progress, accepted
\* against an entry of the cache that was stored a minute or more before
C37_Witness ==
    /\ wpc = "await"
    /\ validPrices[wi].Symbol = "bitcoin"
    /\ batchLog["bitcoin"].scaled = 115
    /\ boundCache["bitcoin"] # NoEntry
    /\ boundCache["bitcoin"].age >= 1
    /\ boundCache["bitcoin"].up = 120

\* C38, as stated: in the step that submits a Set call for a symbol, the entry
\* of the symbol in onChainPrices is 0 or the scaled price submitted lies
\* outside 2% of it, also with events applied since the validation
C38_SubmittedPriceOutsideTwoPercent ==
    [][inFlight' > inFlight =>
          LET price == validPrices[wi]
              newPrice == price.Amount \div 10
              contractPrice == onChainPrices[price.Symbol] \div 10
          IN  \/ contractPrice = 0
              \/ newPrice < (98 * contractPrice) \div 100
              \/ newPrice > (102 * contractPrice) \div 100]_vars

----------------------------------------------------------------------------
(* Properties of the keys of the shared price cache *)

\* C39, as stated: every symbol that has an entry in the shared price cache
\* is a lower-case symbol of the service, whatever batches the main loop has
\* applied and whatever requests POST /set-price has served
C39_CacheKeysLowerCase ==
    \A key \in DOMAIN apiPrices :
        apiPrices[key] # Absent => key[1] \in {"bitcoin", "ethereum"}

====
